---- MODULE Spec2Model ----
(***************************************************************************)
(* A model of the agentic data analyst's orchestration layer:              *)
(* SupervisorAgent.analyze_dataset and SupervisorAgent.generate_prd with   *)
(* the six analysis agents and the PO agent they call.                     *)
(*                                                                         *)
(* Text is modelled as a sequence of pieces (an f-string is the sequence   *)
(* of its literal parts and interpolated values), a dataset as a sequence  *)
(* of typed columns of nullable cells.  The generation collaborator and    *)
(* the runtime are the environment: each generation call either returns    *)
(* or raises, and the unguarded part of a stage may raise.                 *)
(***************************************************************************)
EXTENDS Integers, Sequences, FiniteSets, TLC

(* ---------------------------------------------------------------- bounds *)

\* Largest number of columns of a dataset of the pipeline specification.
MaxCols == 1

\* Largest number of rows of a dataset of the pipeline specification.
MaxRows == 1

(* ------------------------------------------------------------- constants *)

\* config.MAX_SAMPLE_VALUES
MAX_SAMPLE_VALUES == 5

(* --------------------------------------------------------------- dataset *)

\* A cell of a numeric column holding x.
Num(x) == [null |-> FALSE, v |-> x]

\* A missing cell of a numeric column (NaN).
NumNull == [null |-> TRUE, v |-> 0]

\* A cell of a text column holding the string s (a sequence of characters).
Txt(s) == [null |-> FALSE, v |-> s]

\* A missing cell of a text column (None / NaN in an object column).
TxtNull == [null |-> TRUE, v |-> <<>>]

\* The pandas dtypes of the columns of the modelled datasets.
Dtypes == {"float64", "object"}

\* Column labels, by position.
ColumnNames == <<"c1", "c2", "c3", "c4">>

\* The cells a column of the given dtype draws from in the pipeline
\* specification: a missing cell or one value.
CellsOf(dtype) ==
    IF dtype = "object" THEN {TxtNull, Txt(<<"A">>)} ELSE {NumNull, Num(1)}

\* The columns with n rows, at position j.
ColumnsAt(j, n) ==
    UNION {{[column_name |-> ColumnNames[j], dtype |-> t, cells |-> cs] :
                cs \in [1..n -> CellsOf(t)]} : t \in Dtypes}

\* The datasets with k columns and n rows.
FramesOf(k, n) ==
    {[nrows |-> n, columns |-> cols] :
        cols \in {f \in [1..k -> UNION {ColumnsAt(j, n) : j \in 1..k}] :
                    \A j \in 1..k : f[j].column_name = ColumnNames[j]}}

\* The datasets of the pipeline specification: the empty dataset and every
\* dataset of 1..MaxCols columns and 0..MaxRows rows.
Frames ==
    FramesOf(0, 0) \cup UNION {FramesOf(k, n) : k \in 1..MaxCols, n \in 0..MaxRows}

\* len(df)
FrameLen(df) == df.nrows

\* The non-null cells of a column, in row order: df[col].dropna()
DropNa(cells) == SelectSeq(cells, LAMBDA c : ~c.null)

\* int(df[col].isnull().sum())
NullCount(cells) == Len(SelectSeq(cells, LAMBDA c : c.null))

\* int(df[col].nunique()): the number of distinct non-null values
NUnique(cells) == Cardinality({cells[i].v : i \in {j \in DOMAIN cells : ~cells[j].null}})

\* The first n elements of a sequence: s[:n], Series.head(n)
Head_(s, n) == SubSeq(s, 1, IF Len(s) < n THEN Len(s) ELSE n)

(* ------------------------------------------------------------------ text *)

\* A string literal as text.
T(s) == <<s>>

\* Python's None: the value of a result field no stage has filled.
None == [none |-> TRUE]

\* Python truthiness of a result field: None is falsy, and every record a
\* stage returns has at least one key, so it is truthy.
Truthy(x) == x # None

\* a / b rounded to the nearest integer, ties to even (a >= 0, b > 0).
RoundDiv(a, b) ==
    LET q == a \div b
        r == a % b
    IN  IF 2 * r < b THEN q
        ELSE IF 2 * r > b THEN q + 1
        ELSE IF q % 2 = 0 THEN q ELSE q + 1

(* ---------------------------------------------------------------- floats *)

\* A float (IEEE 754 double) in the range of the percentages is the record
\* [hi, lo, s] of value (hi + (lo[1] * Limb^3 + lo[2] * Limb^2 + lo[3] * Limb
\* + lo[4]) / Limb^4) / 2^s: 52 bits after the point, in four limbs.
Limb == 8192

\* 0.0
Zero == [hi |-> 0, lo |-> <<0, 0, 0, 0>>, s |-> 0]

\* 2^d
RECURSIVE Pow2(_)
Pow2(d) == IF d = 0 THEN 1 ELSE 2 * Pow2(d - 1)

\* The number of bits of h.
RECURSIVE BitLen(_)
BitLen(h) == IF h = 0 THEN 0 ELSE 1 + BitLen(h \div 2)

\* The float of the given parts, which may exceed a limb, with the carries
\* propagated.
Carry(hi, lo, s) ==
    LET t3 == lo[3] + (lo[4] \div Limb)
        t2 == lo[2] + (t3 \div Limb)
        t1 == lo[1] + (t2 \div Limb)
    IN  [hi |-> hi + (t1 \div Limb),
         lo |-> <<t1 % Limb, t2 % Limb, t3 % Limb, lo[4] % Limb>>,
         s  |-> s]

\* The least s with k * 2^s >= n (k > 0).
RECURSIVE Shift(_, _)
Shift(k, n) == IF k >= n THEN 0 ELSE 1 + Shift(2 * k, n)

\* The quotient of num / n to the limbs after the point, rounded to nearest,
\* ties to even, by long division: r is the remainder so far.
Quotient(num, n, s) ==
    LET r0  == num % n
        r1  == (r0 * Limb) % n
        r2  == (r1 * Limb) % n
        r3  == (r2 * Limb) % n
        r4  == (r3 * Limb) % n
        l4  == (r3 * Limb) \div n
        up  == 2 * r4 > n \/ (2 * r4 = n /\ l4 % 2 = 1)
    IN  Carry(num \div n,
              <<(r0 * Limb) \div n, (r1 * Limb) \div n, (r2 * Limb) \div n,
                l4 + (IF up THEN 1 ELSE 0)>>,
              s)

\* count / total of two ints, 0 <= count <= total and total > 0: the quotient
\* to 53 significant bits, rounded to nearest, ties to even.
TrueDiv(count, total) ==
    CHOOSE q \in {IF k = 0 THEN Zero ELSE Quotient(k * Pow2(Shift(k, n)), n, Shift(k, n)) :
                    k \in {count}, n \in {total}} : TRUE

\* The exact product of the float x and the int m, before rounding.
Scale(x, m) ==
    CHOOSE p \in {Carry(v.hi * m, [i \in 1..4 |-> v.lo[i] * m], v.s) : v \in {x}} : TRUE

\* A product rounded to 53 significant bits, to nearest, ties to even.
Round53(x) ==
    IF BitLen(x.hi) <= 1 THEN x
    ELSE LET unit == Pow2(BitLen(x.hi) - 1)
             low  == x.lo[3] * Limb + x.lo[4]
             kept == low - (low % unit)
             up   == \/ 2 * (low % unit) > unit
                     \/ 2 * (low % unit) = unit /\ (kept \div unit) % 2 = 1
         IN  CHOOSE p \in {Carry(x.hi, <<x.lo[1], x.lo[2], new \div Limb, new % Limb>>, x.s) :
                            new \in {kept + (IF up THEN unit ELSE 0)}} : TRUE

\* x * 100 on floats.
Times100(x) == CHOOSE p \in {Round53(v) : v \in {Scale(x, 100)}} : TRUE

\* (count / total) * 100
Percent(count, total) == Times100(TrueDiv(count, total))

\* x > thr for a float x and an int thr.
Exceeds(x, thr) ==
    \E v \in {x} :
        \/ v.hi > thr * Pow2(v.s)
        \/ v.hi = thr * Pow2(v.s) /\ v.lo # <<0, 0, 0, 0>>

\* The integer nearest to the float x, ties to even.
Nearest(x) ==
    LET unit  == Pow2(x.s)
        whole == x.hi \div unit
        above == IF x.s = 0
                 THEN \/ 2 * x.lo[1] > Limb
                      \/ 2 * x.lo[1] = Limb /\ <<x.lo[2], x.lo[3], x.lo[4]>> # <<0, 0, 0>>
                 ELSE \/ 2 * (x.hi % unit) > unit
                      \/ 2 * (x.hi % unit) = unit /\ x.lo # <<0, 0, 0, 0>>
        tie   == IF x.s = 0
                 THEN x.lo = <<Limb \div 2, 0, 0, 0>>
                 ELSE 2 * (x.hi % unit) = unit /\ x.lo = <<0, 0, 0, 0>>
    IN  whole + (IF above \/ (tie /\ whole % 2 = 1) THEN 1 ELSE 0)

\* The same, of a float given by an expression.
Rint(x) == CHOOSE r \in {Nearest(v) : v \in {x}} : TRUE

\* round(x, 2) of a Python float, in hundredths: the decimal nearest to the
\* exact value of x, ties to even.
PyRound2(x) == Rint(Scale(x, 100))

\* round(x, 2) of a numpy float64, in hundredths: rint(x * 100) / 100.
NpRound2(x) == Rint(Times100(x))

\* f"{x:.1f}" of a float, in tenths.
Tenths(x) == Rint(Scale(x, 10))

(* ------------------------------------------------ generation collaborator *)

\* The outcome of a generation call that returned.
GenOk == "ok"

\* The messages of the exceptions a generation call can raise.
GenErrors == {"generation failed"}

\* The outcomes of one generation call: it returns or it raises.
GenOutcomes == {GenOk} \cup GenErrors

\* The value of an output field of a generation call that returned.
Generated(field) == <<"generated ", field>>

\* The record of one generation call: the call site and its outcome.
GenCall(site, arg, out) == [site |-> site, arg |-> arg, outcome |-> out]

\* No exception in the unguarded part of a stage.
NoFault == "none"

\* The messages of the exceptions the unguarded part of a stage can raise
\* (library and runtime errors outside the stage's own try blocks).
Faults == {"unexpected error"}

\* What a call of a stage gives its caller: a returned value or a raised
\* exception, with the generation calls it made.
Return(value, calls) ==
    [raised |-> FALSE, value |-> value, message |-> "", calls |-> calls]

Raise(message, calls) ==
    [raised |-> TRUE, value |-> None, message |-> message, calls |-> calls]

\* No KeyError.
NoKeyError == ""

\* str(e) of the KeyError that d[key] raises: the repr of the key, with its
\* quotes.
KeyErrorStr(key) == "'" \o key \o "'"

\* The first of the keys, in reading order, that the dict d does not have:
\* the key d[key] raises KeyError with; NoKeyError when it has them all.
FirstMissing(d, keys) ==
    IF \A i \in DOMAIN keys : keys[i] \in DOMAIN d THEN NoKeyError
    ELSE keys[CHOOSE i \in DOMAIN keys :
                 keys[i] \notin DOMAIN d /\ \A j \in 1..(i - 1) : keys[j] \in DOMAIN d]

\* The key the reads d[key][k], k in keys in order, raise KeyError with.
ReadError(d, key, keys) ==
    IF key \notin DOMAIN d THEN key ELSE FirstMissing(d[key], keys)

\* The first KeyError of a sequence of reads.
FirstError(errors) ==
    IF \A i \in DOMAIN errors : errors[i] = NoKeyError THEN NoKeyError
    ELSE errors[CHOOSE i \in DOMAIN errors :
                   errors[i] # NoKeyError /\ \A j \in 1..(i - 1) : errors[j] = NoKeyError]

(* ---------------------------------------------------------- schema agent *)

\* str(sample_values) of the first MAX_SAMPLE_VALUES non-null values,
\* or the fixed text of an all-null column.
SampleValues(cells) ==
    IF Len(DropNa(cells)) > 0
    THEN [text  |-> "list",
          items |-> [i \in DOMAIN Head_(DropNa(cells), MAX_SAMPLE_VALUES) |->
                        Head_(DropNa(cells), MAX_SAMPLE_VALUES)[i].v]]
    ELSE [text |-> "All null values", items |-> <<>>]

\* round((null_count / total_count) * 100, 2), in hundredths of a percent;
\* the caller has checked total_count > 0.
NullPercentage(null_count, total_count) ==
    PyRound2(Percent(null_count, total_count))

\* SchemaAgent._analyze_column once its generation call has ended with
\* outcome out and the division has succeeded (total_count > 0).
AnalyzeColumn(df, col, out) ==
    [column_name     |-> col.column_name,
     pandas_dtype    |-> col.dtype,
     null_count      |-> NullCount(col.cells),
     null_percentage |-> NullPercentage(NullCount(col.cells), FrameLen(df)),
     unique_count    |-> NUnique(col.cells),
     sample_values   |-> SampleValues(col.cells),
     business_type   |-> IF out = GenOk THEN Generated("business_type") ELSE T("Unknown"),
     confidence      |-> IF out = GenOk THEN Generated("confidence") ELSE T("low"),
     reasoning       |-> IF out = GenOk THEN Generated("reasoning")
                         ELSE <<"Error in LLM interpretation: ", out>>,
     recommendation  |-> IF out = GenOk THEN Generated("recommendation")
                         ELSE T("Review manually")]

\* The summary SchemaAgent.analyze builds before it visits the columns; the
\* memory usage is an opaque function of the dataset.
SchemaSummary(df) ==
    [total_columns   |-> Len(df.columns),
     total_rows      |-> FrameLen(df),
     memory_usage_mb |-> [of_columns |-> Len(df.columns), of_rows |-> FrameLen(df)]]

\* The agent without the try block of _analyze_column: the exception of
\* the first failed generation call leaves analyze.
SchemaAnalyzeUncaught(df, fault, outs) ==
    IF fault # NoFault THEN Raise(fault, <<>>)
    ELSE IF Len(df.columns) > 0 /\ FrameLen(df) = 0
    THEN Raise("division by zero",
               <<GenCall("SchemaInterpreter", df.columns[1].column_name, outs[1])>>)
    ELSE IF \E j \in DOMAIN df.columns : outs[j] # GenOk
    THEN Raise(outs[CHOOSE j \in DOMAIN df.columns : outs[j] # GenOk],
               <<GenCall("SchemaInterpreter", df.columns[1].column_name, outs[1])>>)
    ELSE Return([columns |-> [j \in DOMAIN df.columns |->
                                AnalyzeColumn(df, df.columns[j], outs[j])],
                 summary |-> SchemaSummary(df)],
                [j \in DOMAIN df.columns |->
                    GenCall("SchemaInterpreter", df.columns[j].column_name, outs[j])])

\* The agent made to try the failed columns once more after its loop.
SchemaAnalyzeRetry(df, fault, outs) ==
    IF fault # NoFault THEN Raise(fault, <<>>)
    ELSE IF Len(df.columns) > 0 /\ FrameLen(df) = 0
    THEN Raise("division by zero",
               <<GenCall("SchemaInterpreter", df.columns[1].column_name, outs[1])>>)
    ELSE LET calls == [j \in DOMAIN df.columns |->
                          GenCall("SchemaInterpreter", df.columns[j].column_name, outs[j])]
         IN  Return([columns |-> [j \in DOMAIN df.columns |->
                                     AnalyzeColumn(df, df.columns[j], outs[j])],
                     summary |-> SchemaSummary(df)],
                    calls \o SelectSeq(calls, LAMBDA c : c.outcome # GenOk))

\* SchemaAgent.analyze(df): one generation call per column, in column
\* order; the column's null percentage divides by len(df) after its call.
SchemaAnalyze(df, fault, outs) ==
    IF fault # NoFault THEN Raise(fault, <<>>)
    ELSE IF Len(df.columns) > 0 /\ FrameLen(df) = 0
    THEN Raise("division by zero",
               <<GenCall("SchemaInterpreter", df.columns[1].column_name, outs[1])>>)
    ELSE Return([columns |-> [j \in DOMAIN df.columns |->
                                AnalyzeColumn(df, df.columns[j], outs[j])],
                 summary |-> SchemaSummary(df)],
                [j \in DOMAIN df.columns |->
                    GenCall("SchemaInterpreter", df.columns[j].column_name, outs[j])])

(* --------------------------------------------------------- profile agent *)

\* df.select_dtypes(include=[np.number]).columns
IsNumeric(col) == col.dtype \in {"int64", "float64"}

\* df.select_dtypes(include=['object', 'category']).columns
IsCategorical(col) == col.dtype \in {"object", "category"}

\* The values of the non-null cells of a column, in row order.
Values(cells) == [i \in DOMAIN DropNa(cells) |-> DropNa(cells)[i].v]

\* xs with x inserted before the first element greater than x (xs sorted).
RECURSIVE Insert(_, _)
Insert(xs, x) ==
    IF xs = <<>> THEN <<x>>
    ELSE IF x < xs[1] THEN <<x>> \o xs
    ELSE <<xs[1]>> \o Insert(Tail(xs), x)

\* The values in ascending order.
RECURSIVE Sorted(_)
Sorted(xs) ==
    IF xs = <<>> THEN <<>> ELSE Insert(Sorted(SubSeq(xs, 1, Len(xs) - 1)), xs[Len(xs)])

\* A float that is not a number.
NaN == [nan |-> TRUE, num |-> 0, den |-> 1]

\* The float num / den (den > 0).
Ratio(num, den) == [nan |-> FALSE, num |-> num, den |-> den]

\* a <= b on floats; any comparison with NaN is false.
Le(a, b) == ~a.nan /\ ~b.nan /\ a.num * b.den <= b.num * a.den

\* a < b on floats; any comparison with NaN is false.
Lt(a, b) == ~a.nan /\ ~b.nan /\ a.num * b.den < b.num * a.den

\* The value at position h4 / 4 (from 0) of the sorted values xs, interpolated
\* linearly between its two neighbours.
Interpolate(xs, h4) ==
    IF xs = <<>> THEN NaN
    ELSE IF h4 % 4 = 0 THEN Ratio(4 * xs[(h4 \div 4) + 1], 4)
    ELSE Ratio(4 * xs[(h4 \div 4) + 1]
                 + (h4 % 4) * (xs[(h4 \div 4) + 2] - xs[(h4 \div 4) + 1]), 4)

\* Series.quantile(k / 4) with linear interpolation over the non-null
\* values: at position h = (n - 1) * k / 4 of the sorted values.
Quantile(cells, k) == Interpolate(Sorted(Values(cells)), (Len(Values(cells)) - 1) * k)

\* The sum of the elements of a sequence of integers.
RECURSIVE Sum(_)
Sum(xs) == IF xs = <<>> THEN 0 ELSE xs[1] + Sum(Tail(xs))

\* Series.mean() over the non-null values.
Mean(cells) ==
    IF Values(cells) = <<>> THEN NaN ELSE Ratio(Sum(Values(cells)), Len(Values(cells)))

\* Series.min() and Series.max() over the non-null values.
Min(cells) ==
    IF Values(cells) = <<>> THEN NaN ELSE Ratio(Sorted(Values(cells))[1], 1)

Max(cells) ==
    IF Values(cells) = <<>> THEN NaN
    ELSE Ratio(Sorted(Values(cells))[Len(Values(cells))], 1)

\* The sums of the squares and of the cubes of the deviations n * x - sum(x)
\* of the n non-null values: n^3 and n^4 times the second and third central
\* moments.
Dev(cells) ==
    [i \in DOMAIN Values(cells) |->
        Len(Values(cells)) * Values(cells)[i] - Sum(Values(cells))]

Dev2(cells) == Sum([i \in DOMAIN Dev(cells) |-> Dev(cells)[i] * Dev(cells)[i]])

Dev3(cells) ==
    Sum([i \in DOMAIN Dev(cells) |-> Dev(cells)[i] * Dev(cells)[i] * Dev(cells)[i]])

\* The square of the sample variance, as a float: std * std of describe().
Variance(cells) ==
    LET n == Len(Values(cells))
    IN  IF n < 2 THEN NaN ELSE Ratio(Dev2(cells), n * n * (n - 1))

\* Series.skew(), the adjusted Fisher-Pearson coefficient
\*   n * sqrt(n - 1) / (n - 2) * Dev3 / Dev2^(3/2),
\* given by its sign and its square: NaN under three values, 0 when the
\* values are all equal.
Skewness(cells) ==
    LET n == Len(Values(cells))
    IN  IF n < 3 THEN [nan |-> TRUE, sign |-> 0, square |-> NaN]
        ELSE IF Dev2(cells) = 0 THEN [nan |-> FALSE, sign |-> 0, square |-> Ratio(0, 1)]
        ELSE [nan    |-> FALSE,
              sign   |-> IF Dev3(cells) > 0 THEN 1 ELSE IF Dev3(cells) < 0 THEN -1 ELSE 0,
              square |-> Ratio(n * n * (n - 1) * Dev3(cells) * Dev3(cells),
                               (n - 2) * (n - 2) * Dev2(cells) * Dev2(cells) * Dev2(cells))]

\* The pattern with the thresholds at 1 in place of 0.5.
PatternWide(skewness) ==
    IF ~skewness.nan /\ Lt(skewness.square, Ratio(1, 1)) THEN T("normal distribution")
    ELSE IF ~skewness.nan /\ skewness.sign > 0 /\ Lt(Ratio(1, 1), skewness.square)
    THEN T("right skewed")
    ELSE T("left skewed")

\* The pattern _analyze_numeric_column derives from the skewness:
\* abs(skewness) < 0.5, else skewness > 0.5, else the rest (NaN included).
Pattern(skewness) ==
    IF ~skewness.nan /\ Lt(skewness.square, Ratio(1, 4)) THEN T("normal distribution")
    ELSE IF ~skewness.nan /\ skewness.sign > 0 /\ Lt(Ratio(1, 4), skewness.square)
    THEN T("right skewed")
    ELSE T("left skewed")

\* ProfileAgent._analyze_numeric_column with its generation call ended out.
AnalyzeNumericColumn(col, out) ==
    [column_name          |-> col.column_name,
     mean                 |-> Mean(col.cells),
     median               |-> Quantile(col.cells, 2),
     std                  |-> [squared |-> Variance(col.cells)],
     min                  |-> Min(col.cells),
     max                  |-> Max(col.cells),
     q25                  |-> Quantile(col.cells, 1),
     q75                  |-> Quantile(col.cells, 3),
     skewness             |-> Skewness(col.cells),
     pattern_detected     |-> IF out = GenOk THEN Generated("pattern_detected")
                              ELSE Pattern(Skewness(col.cells)),
     insight              |-> IF out = GenOk THEN Generated("insight")
                              ELSE <<"Error generating insight: ", out>>,
     actionable_suggestion |-> IF out = GenOk THEN Generated("actionable_suggestion")
                               ELSE T("Review statistics manually")]

\* The distinct elements of a sequence, in order of first appearance.
RECURSIVE Distinct(_)
Distinct(xs) ==
    IF xs = <<>> THEN <<>>
    ELSE LET front == Distinct(SubSeq(xs, 1, Len(xs) - 1))
         IN  IF \E i \in DOMAIN front : front[i] = xs[Len(xs)]
             THEN front ELSE Append(front, xs[Len(xs)])

\* The number of elements of xs equal to x.
Count(xs, x) == Cardinality({i \in DOMAIN xs : xs[i] = x})

\* ps with the pair p inserted after every pair whose count is not smaller.
RECURSIVE InsertByCount(_, _)
InsertByCount(ps, p) ==
    IF ps = <<>> THEN <<p>>
    ELSE IF ps[1].count < p.count THEN <<p>> \o ps
    ELSE <<ps[1]>> \o InsertByCount(Tail(ps), p)

RECURSIVE SortByCount(_)
SortByCount(ps) ==
    IF ps = <<>> THEN <<>>
    ELSE InsertByCount(SortByCount(SubSeq(ps, 1, Len(ps) - 1)), ps[Len(ps)])

\* Series.value_counts(): the distinct non-null values with their counts,
\* most frequent first, equally frequent values in order of first appearance.
ValueCounts(cells) ==
    SortByCount([i \in DOMAIN Distinct(Values(cells)) |->
                    [value |-> Distinct(Values(cells))[i],
                     count |-> Count(Values(cells), Distinct(Values(cells))[i])]])

\* ProfileAgent._analyze_categorical_column with its generation call ended out.
AnalyzeCategoricalColumn(col, out) ==
    [column_name          |-> col.column_name,
     cardinality          |-> Len(ValueCounts(col.cells)),
     top_value            |-> IF Len(ValueCounts(col.cells)) > 0
                              THEN ValueCounts(col.cells)[1].value ELSE T("N/A"),
     top_frequency        |-> IF Len(ValueCounts(col.cells)) > 0
                              THEN ValueCounts(col.cells)[1].count ELSE 0,
     top_5                |-> Head_(ValueCounts(col.cells), 5),
     pattern_detected     |-> IF out = GenOk THEN Generated("pattern_detected")
                              ELSE T("unknown"),
     insight              |-> IF out = GenOk THEN Generated("insight")
                              ELSE <<"Error generating insight: ", out>>,
     actionable_suggestion |-> IF out = GenOk THEN Generated("actionable_suggestion")
                               ELSE T("Review distribution manually")]

\* The numeric columns, then the categorical columns, each in column order.
NumericCols(df) == SelectSeq(df.columns, IsNumeric)

CategoricalCols(df) == SelectSeq(df.columns, IsCategorical)

\* The number of generation calls of ProfileAgent.analyze(df).
ProfileCalls(df) == Len(NumericCols(df)) + Len(CategoricalCols(df))

\* ProfileAgent.analyze(df): one generation call per numeric column, then
\* one per categorical column.
ProfileAnalyze(df, fault, outs) ==
    IF fault # NoFault THEN Raise(fault, <<>>)
    ELSE LET nn == Len(NumericCols(df))
         IN  Return([numeric_analysis |->
                        [j \in DOMAIN NumericCols(df) |->
                            AnalyzeNumericColumn(NumericCols(df)[j], outs[j])],
                     categorical_analysis |->
                        [j \in DOMAIN CategoricalCols(df) |->
                            AnalyzeCategoricalColumn(CategoricalCols(df)[j], outs[nn + j])]],
                    [j \in 1..ProfileCalls(df) |->
                        GenCall("StatisticalInsightGenerator",
                                IF j <= nn THEN NumericCols(df)[j].column_name
                                ELSE CategoricalCols(df)[j - nn].column_name,
                                outs[j])])

(* --------------------------------------------------------- quality agent *)

\* |x|
Abs(x) == IF x < 0 THEN -x ELSE x

\* num / den rounded to the nearest integer, ties to even (den > 0).
RoundRatio(num, den) ==
    IF num < 0 THEN -RoundDiv(-num, den) ELSE RoundDiv(num, den)

\* f"{x:.1f}" of the percentage (count / total) * 100.
Pct1(count, total) ==
    <<ToString(Tenths(Percent(count, total)) \div 10), ".",
      ToString(Tenths(Percent(count, total)) % 10)>>

\* f"{x:.2f}" of the float x.
Fixed2(x) ==
    LET h == RoundRatio(x.num * 100, x.den)
    IN  <<IF x.num < 0 THEN "-" ELSE "", ToString(Abs(h) \div 100), ".",
          ToString((Abs(h) % 100) \div 10), ToString(Abs(h) % 10)>>

\* round(x, 2) of the float x, in hundredths.
Round2(x) == RoundRatio(x.num * 100, x.den)

\* The issue with its severity lowered to info when its generation call
\* raised.
IssueSeverityByCall(d, out) ==
    [type               |-> d.fixed.type,
     column             |-> d.fixed.column,
     severity           |-> IF out = GenOk THEN d.fixed.severity ELSE "info",
     description        |-> d.fixed.description,
     count              |-> d.fixed.count,
     percentage         |-> d.fixed.percentage,
     bounds             |-> d.fixed.bounds,
     recommended_action |-> IF out = GenOk THEN Generated("recommended_action")
                            ELSE d.fallback.action,
     code_snippet       |-> IF out = GenOk THEN Generated("python_code")
                            ELSE d.fallback.code,
     impact             |-> IF out = GenOk THEN Generated("impact_description")
                            ELSE d.fallback.impact]

\* The issue record of the quality checks: the detected fields, and from
\* the issue's generation call (its outcome is out) the recommendation, or
\* the check's fallback values when the call raised.  A key the check does
\* not set ('percentage', 'bounds') is None.
Issue(d, out) ==
    [type               |-> d.fixed.type,
     column             |-> d.fixed.column,
     severity           |-> d.fixed.severity,
     description        |-> d.fixed.description,
     count              |-> d.fixed.count,
     percentage         |-> d.fixed.percentage,
     bounds             |-> d.fixed.bounds,
     recommended_action |-> IF out = GenOk THEN Generated("recommended_action")
                            ELSE d.fallback.action,
     code_snippet       |-> IF out = GenOk THEN Generated("python_code")
                            ELSE d.fallback.code,
     impact             |-> IF out = GenOk THEN Generated("impact_description")
                            ELSE d.fallback.impact]

\* The severity of a missing-values issue with the warnings threshold at 25.
MissingSeverityAt25(null_count, total) ==
    IF Exceeds(Percent(null_count, total), 50) THEN "critical"
    ELSE IF Exceeds(Percent(null_count, total), 25) THEN "warnings"
    ELSE "info"

\* The severity of a missing-values issue: null_pct > 50, else > 20.
MissingSeverity(null_count, total) ==
    IF Exceeds(Percent(null_count, total), 50) THEN "critical"
    ELSE IF Exceeds(Percent(null_count, total), 20) THEN "warnings"
    ELSE "info"

\* QualityAgent._check_missing_values: what is detected for one column with
\* at least one null, before the generation call.
MissingDetected(df, col) ==
    [fixed |->
        [type        |-> "missing_values",
         column      |-> col.column_name,
         severity    |-> MissingSeverity(NullCount(col.cells), FrameLen(df)),
         description |-> <<ToString(NullCount(col.cells)), " missing values (">>
                         \o Pct1(NullCount(col.cells), FrameLen(df))
                         \o <<"%) in column '", col.column_name, "'">>,
         count       |-> NullCount(col.cells),
         percentage  |-> PyRound2(Percent(NullCount(col.cells), FrameLen(df))),
         bounds      |-> None],
     fallback |->
        [action |-> T("Impute with median/mode or drop rows"),
         code   |-> <<"df['", col.column_name, "'].fillna(df['", col.column_name,
                      "'].median(), inplace=True)">>,
         impact |-> T("Fill missing values")]]

\* The columns with at least one null, in column order.
ColsWithNulls(df) == SelectSeq(df.columns, LAMBDA c : NullCount(c.cells) > 0)

MissingAll(df) ==
    [j \in DOMAIN ColsWithNulls(df) |-> MissingDetected(df, ColsWithNulls(df)[j])]

\* Row i of the dataset: its cell in every column.
Row(df, i) == [j \in DOMAIN df.columns |-> df.columns[j].cells[i]]

\* df.duplicated().sum(): the rows equal to an earlier row (missing cells
\* are equal to each other).
DupCount(df) ==
    IF Len(df.columns) = 0 THEN 0
    ELSE Cardinality({i \in 1..FrameLen(df) :
                        \E k \in 1..(i - 1) : Row(df, k) = Row(df, i)})

\* The duplicates issue for dup_count duplicate rows among total rows, if any.
DuplicateIssues(dup_count, total) ==
    IF dup_count > 0
    THEN <<[fixed |->
              [type        |-> "duplicates",
               column      |-> "entire_row",
               severity    |-> IF Exceeds(Percent(dup_count, total), 5)
                               THEN "warnings" ELSE "info",
               description |-> <<ToString(dup_count), " duplicate rows (">>
                               \o Pct1(dup_count, total) \o <<"%)">>,
               count       |-> dup_count,
               percentage  |-> NpRound2(Percent(dup_count, total)),
               bounds      |-> None],
            fallback |->
              [action |-> T("Remove duplicate rows"),
               code   |-> T("df.drop_duplicates(inplace=True)"),
               impact |-> <<"Remove ", ToString(dup_count), " duplicate rows">>]]>>
    ELSE <<>>

\* QualityAgent._check_duplicates
DuplicatesAll(df) == DuplicateIssues(DupCount(df), FrameLen(df))

\* Q1 - 1.5 * IQR and Q3 + 1.5 * IQR (NaN for a column without values).
LowerFence(Q1, Q3) == IF Q1.nan THEN NaN ELSE Ratio(2 * Q1.num - 3 * (Q3.num - Q1.num), 8)

UpperFence(Q1, Q3) == IF Q3.nan THEN NaN ELSE Ratio(2 * Q3.num + 3 * (Q3.num - Q1.num), 8)

LowerBound(cells) == LowerFence(Quantile(cells, 1), Quantile(cells, 3))

UpperBound(cells) == UpperFence(Quantile(cells, 1), Quantile(cells, 3))

\* The values of the rows with df[col] <= lower_bound or df[col] >= upper_bound.
OutliersInclusive(cells) ==
    SelectSeq(Values(cells),
              LAMBDA x : \/ Le(Ratio(x, 1), LowerBound(cells))
                         \/ Le(UpperBound(cells), Ratio(x, 1)))

\* The values of the rows with df[col] < lower_bound or df[col] > upper_bound.
Outside(xs, lower_bound, upper_bound) ==
    SelectSeq(xs, LAMBDA x : Lt(Ratio(x, 1), lower_bound) \/ Lt(upper_bound, Ratio(x, 1)))

Outliers(cells) == Outside(Values(cells), LowerBound(cells), UpperBound(cells))

\* The outliers issue of column col with the given bounds, outlier count
\* and outlier percentage, before the generation call.
OutlierIssue(col, lower_bound, upper_bound, outlier_count, outlier_pct, pct1) ==
    [fixed |->
        [type        |-> "outliers",
         column      |-> col.column_name,
         severity    |-> IF Exceeds(outlier_pct, 10) THEN "warnings" ELSE "info",
         description |-> <<ToString(outlier_count), " outliers (">> \o pct1
                         \o <<"%) in '", col.column_name, "' (outside [">>
                         \o Fixed2(lower_bound) \o <<", ">>
                         \o Fixed2(upper_bound) \o <<"])">>,
         count       |-> outlier_count,
         percentage  |-> PyRound2(outlier_pct),
         bounds      |-> <<Round2(lower_bound), Round2(upper_bound)>>],
     fallback |->
        [action |-> T("Cap outliers or flag for investigation"),
         code   |-> <<"df['", col.column_name, "'] = df['", col.column_name,
                      "'].clip(lower=">> \o Fixed2(lower_bound)
                    \o <<", upper=">> \o Fixed2(upper_bound) \o <<")">>,
         impact |-> T("Cap extreme values")]]

\* QualityAgent._check_outliers: what is detected for one numeric column
\* with at least one outlier.
OutlierDetected(df, col) ==
    OutlierIssue(col, LowerBound(col.cells), UpperBound(col.cells),
                 Len(Outliers(col.cells)),
                 Percent(Len(Outliers(col.cells)), FrameLen(df)),
                 Pct1(Len(Outliers(col.cells)), FrameLen(df)))

ColsWithOutliers(df) ==
    SelectSeq(NumericCols(df), LAMBDA c : Len(Outliers(c.cells)) > 0)

OutliersAll(df) ==
    [j \in DOMAIN ColsWithOutliers(df) |-> OutlierDetected(df, ColsWithOutliers(df)[j])]

\* A character of a text is a one-character string or, where a string of
\* this module cannot hold the character (the code points above U+007F whose
\* low byte is below 80 hex, those above U+FFFF, and the grave accent), the
\* name of its code point, as in "U+0130".

\* The characters str.lower() changes into one other character, each with
\* its lower case.
LowerPairs ==
    {<<"A", "a">>, <<"B", "b">>, <<"C", "c">>, <<"D", "d">>, <<"E", "e">>, <<"F", "f">>,
     <<"G", "g">>, <<"H", "h">>, <<"I", "i">>, <<"J", "j">>, <<"K", "k">>, <<"L", "l">>,
     <<"M", "m">>, <<"N", "n">>, <<"O", "o">>, <<"P", "p">>, <<"Q", "q">>, <<"R", "r">>,
     <<"S", "s">>, <<"T", "t">>, <<"U", "u">>, <<"V", "v">>, <<"W", "w">>, <<"X", "x">>,
     <<"Y", "y">>, <<"Z", "z">>, <<"À", "à">>, <<"Á", "á">>, <<"Â", "â">>, <<"Ã", "ã">>,
     <<"Ä", "ä">>, <<"Å", "å">>, <<"Æ", "æ">>, <<"Ç", "ç">>, <<"È", "è">>, <<"É", "é">>,
     <<"Ê", "ê">>, <<"Ë", "ë">>, <<"Ì", "ì">>, <<"Í", "í">>, <<"Î", "î">>, <<"Ï", "ï">>,
     <<"Ð", "ð">>, <<"Ñ", "ñ">>, <<"Ò", "ò">>, <<"Ó", "ó">>, <<"Ô", "ô">>, <<"Õ", "õ">>,
     <<"Ö", "ö">>, <<"Ø", "ø">>, <<"Ù", "ù">>, <<"Ú", "ú">>, <<"Û", "û">>, <<"Ü", "ü">>,
     <<"Ý", "ý">>, <<"Þ", "þ">>, <<"U+0100", "U+0101">>, <<"U+0102", "U+0103">>,
     <<"U+0104", "U+0105">>, <<"U+0106", "U+0107">>, <<"U+0108", "U+0109">>,
     <<"U+010A", "U+010B">>, <<"U+010C", "U+010D">>, <<"U+010E", "U+010F">>,
     <<"U+0110", "U+0111">>, <<"U+0112", "U+0113">>, <<"U+0114", "U+0115">>,
     <<"U+0116", "U+0117">>, <<"U+0118", "U+0119">>, <<"U+011A", "U+011B">>,
     <<"U+011C", "U+011D">>, <<"U+011E", "U+011F">>, <<"U+0120", "U+0121">>,
     <<"U+0122", "U+0123">>, <<"U+0124", "U+0125">>, <<"U+0126", "U+0127">>,
     <<"U+0128", "U+0129">>, <<"U+012A", "U+012B">>, <<"U+012C", "U+012D">>,
     <<"U+012E", "U+012F">>, <<"U+0132", "U+0133">>, <<"U+0134", "U+0135">>,
     <<"U+0136", "U+0137">>, <<"U+0139", "U+013A">>, <<"U+013B", "U+013C">>,
     <<"U+013D", "U+013E">>, <<"U+013F", "U+0140">>, <<"U+0141", "U+0142">>,
     <<"U+0143", "U+0144">>, <<"U+0145", "U+0146">>, <<"U+0147", "U+0148">>,
     <<"U+014A", "U+014B">>, <<"U+014C", "U+014D">>, <<"U+014E", "U+014F">>,
     <<"U+0150", "U+0151">>, <<"U+0152", "U+0153">>, <<"U+0154", "U+0155">>,
     <<"U+0156", "U+0157">>, <<"U+0158", "U+0159">>, <<"U+015A", "U+015B">>,
     <<"U+015C", "U+015D">>, <<"U+015E", "U+015F">>, <<"U+0160", "U+0161">>,
     <<"U+0162", "U+0163">>, <<"U+0164", "U+0165">>, <<"U+0166", "U+0167">>,
     <<"U+0168", "U+0169">>, <<"U+016A", "U+016B">>, <<"U+016C", "U+016D">>,
     <<"U+016E", "U+016F">>, <<"U+0170", "U+0171">>, <<"U+0172", "U+0173">>,
     <<"U+0174", "U+0175">>, <<"U+0176", "U+0177">>, <<"U+0178", "ÿ">>, <<"U+0179", "U+017A">>,
     <<"U+017B", "U+017C">>, <<"U+017D", "U+017E">>, <<"Ɓ", "U+0253">>, <<"Ƃ", "ƃ">>,
     <<"Ƅ", "ƅ">>, <<"Ɔ", "U+0254">>, <<"Ƈ", "ƈ">>, <<"Ɖ", "U+0256">>, <<"Ɗ", "U+0257">>,
     <<"Ƌ", "ƌ">>, <<"Ǝ", "ǝ">>, <<"Ə", "U+0259">>, <<"Ɛ", "U+025B">>, <<"Ƒ", "ƒ">>,
     <<"Ɠ", "U+0260">>, <<"Ɣ", "U+0263">>, <<"Ɩ", "U+0269">>, <<"Ɨ", "U+0268">>, <<"Ƙ", "ƙ">>,
     <<"Ɯ", "U+026F">>, <<"Ɲ", "U+0272">>, <<"Ɵ", "U+0275">>, <<"Ơ", "ơ">>, <<"Ƣ", "ƣ">>,
     <<"Ƥ", "ƥ">>, <<"Ʀ", "ʀ">>, <<"Ƨ", "ƨ">>, <<"Ʃ", "ʃ">>, <<"Ƭ", "ƭ">>, <<"Ʈ", "ʈ">>,
     <<"Ư", "ư">>, <<"Ʊ", "ʊ">>, <<"Ʋ", "ʋ">>, <<"Ƴ", "ƴ">>, <<"Ƶ", "ƶ">>, <<"Ʒ", "ʒ">>,
     <<"Ƹ", "ƹ">>, <<"Ƽ", "ƽ">>, <<"Ǆ", "ǆ">>, <<"ǅ", "ǆ">>, <<"Ǉ", "ǉ">>, <<"ǈ", "ǉ">>,
     <<"Ǌ", "ǌ">>, <<"ǋ", "ǌ">>, <<"Ǎ", "ǎ">>, <<"Ǐ", "ǐ">>, <<"Ǒ", "ǒ">>, <<"Ǔ", "ǔ">>,
     <<"Ǖ", "ǖ">>, <<"Ǘ", "ǘ">>, <<"Ǚ", "ǚ">>, <<"Ǜ", "ǜ">>, <<"Ǟ", "ǟ">>, <<"Ǡ", "ǡ">>,
     <<"Ǣ", "ǣ">>, <<"Ǥ", "ǥ">>, <<"Ǧ", "ǧ">>, <<"Ǩ", "ǩ">>, <<"Ǫ", "ǫ">>, <<"Ǭ", "ǭ">>,
     <<"Ǯ", "ǯ">>, <<"Ǳ", "ǳ">>, <<"ǲ", "ǳ">>, <<"Ǵ", "ǵ">>, <<"Ƕ", "ƕ">>, <<"Ƿ", "ƿ">>,
     <<"Ǹ", "ǹ">>, <<"Ǻ", "ǻ">>, <<"Ǽ", "ǽ">>, <<"Ǿ", "ǿ">>, <<"U+0200", "U+0201">>,
     <<"U+0202", "U+0203">>, <<"U+0204", "U+0205">>, <<"U+0206", "U+0207">>,
     <<"U+0208", "U+0209">>, <<"U+020A", "U+020B">>, <<"U+020C", "U+020D">>,
     <<"U+020E", "U+020F">>, <<"U+0210", "U+0211">>, <<"U+0212", "U+0213">>,
     <<"U+0214", "U+0215">>, <<"U+0216", "U+0217">>, <<"U+0218", "U+0219">>,
     <<"U+021A", "U+021B">>, <<"U+021C", "U+021D">>, <<"U+021E", "U+021F">>, <<"U+0220", "ƞ">>,
     <<"U+0222", "U+0223">>, <<"U+0224", "U+0225">>, <<"U+0226", "U+0227">>,
     <<"U+0228", "U+0229">>, <<"U+022A", "U+022B">>, <<"U+022C", "U+022D">>,
     <<"U+022E", "U+022F">>, <<"U+0230", "U+0231">>, <<"U+0232", "U+0233">>,
     <<"U+023A", "U+2C65">>, <<"U+023B", "U+023C">>, <<"U+023D", "ƚ">>, <<"U+023E", "U+2C66">>,
     <<"U+0241", "U+0242">>, <<"U+0243", "ƀ">>, <<"U+0244", "ʉ">>, <<"U+0245", "ʌ">>,
     <<"U+0246", "U+0247">>, <<"U+0248", "U+0249">>, <<"U+024A", "U+024B">>,
     <<"U+024C", "U+024D">>, <<"U+024E", "U+024F">>, <<"U+0370", "U+0371">>,
     <<"U+0372", "U+0373">>, <<"U+0376", "U+0377">>, <<"U+037F", "ϳ">>, <<"Ά", "ά">>,
     <<"Έ", "έ">>, <<"Ή", "ή">>, <<"Ί", "ί">>, <<"Ό", "ό">>, <<"Ύ", "ύ">>, <<"Ώ", "ώ">>,
     <<"Α", "α">>, <<"Β", "β">>, <<"Γ", "γ">>, <<"Δ", "δ">>, <<"Ε", "ε">>, <<"Ζ", "ζ">>,
     <<"Η", "η">>, <<"Θ", "θ">>, <<"Ι", "ι">>, <<"Κ", "κ">>, <<"Λ", "λ">>, <<"Μ", "μ">>,
     <<"Ν", "ν">>, <<"Ξ", "ξ">>, <<"Ο", "ο">>, <<"Π", "π">>, <<"Ρ", "ρ">>, <<"Σ", "σ">>,
     <<"Τ", "τ">>, <<"Υ", "υ">>, <<"Φ", "φ">>, <<"Χ", "χ">>, <<"Ψ", "ψ">>, <<"Ω", "ω">>,
     <<"Ϊ", "ϊ">>, <<"Ϋ", "ϋ">>, <<"Ϗ", "ϗ">>, <<"Ϙ", "ϙ">>, <<"Ϛ", "ϛ">>, <<"Ϝ", "ϝ">>,
     <<"Ϟ", "ϟ">>, <<"Ϡ", "ϡ">>, <<"Ϣ", "ϣ">>, <<"Ϥ", "ϥ">>, <<"Ϧ", "ϧ">>, <<"Ϩ", "ϩ">>,
     <<"Ϫ", "ϫ">>, <<"Ϭ", "ϭ">>, <<"Ϯ", "ϯ">>, <<"ϴ", "θ">>, <<"Ϸ", "ϸ">>, <<"Ϲ", "ϲ">>,
     <<"Ϻ", "ϻ">>, <<"Ͻ", "U+037B">>, <<"Ͼ", "U+037C">>, <<"Ͽ", "U+037D">>,
     <<"U+0400", "U+0450">>, <<"U+0401", "U+0451">>, <<"U+0402", "U+0452">>,
     <<"U+0403", "U+0453">>, <<"U+0404", "U+0454">>, <<"U+0405", "U+0455">>,
     <<"U+0406", "U+0456">>, <<"U+0407", "U+0457">>, <<"U+0408", "U+0458">>,
     <<"U+0409", "U+0459">>, <<"U+040A", "U+045A">>, <<"U+040B", "U+045B">>,
     <<"U+040C", "U+045C">>, <<"U+040D", "U+045D">>, <<"U+040E", "U+045E">>,
     <<"U+040F", "U+045F">>, <<"U+0410", "U+0430">>, <<"U+0411", "U+0431">>,
     <<"U+0412", "U+0432">>, <<"U+0413", "U+0433">>, <<"U+0414", "U+0434">>,
     <<"U+0415", "U+0435">>, <<"U+0416", "U+0436">>, <<"U+0417", "U+0437">>,
     <<"U+0418", "U+0438">>, <<"U+0419", "U+0439">>, <<"U+041A", "U+043A">>,
     <<"U+041B", "U+043B">>, <<"U+041C", "U+043C">>, <<"U+041D", "U+043D">>,
     <<"U+041E", "U+043E">>, <<"U+041F", "U+043F">>, <<"U+0420", "U+0440">>,
     <<"U+0421", "U+0441">>, <<"U+0422", "U+0442">>, <<"U+0423", "U+0443">>,
     <<"U+0424", "U+0444">>, <<"U+0425", "U+0445">>, <<"U+0426", "U+0446">>,
     <<"U+0427", "U+0447">>, <<"U+0428", "U+0448">>, <<"U+0429", "U+0449">>,
     <<"U+042A", "U+044A">>, <<"U+042B", "U+044B">>, <<"U+042C", "U+044C">>,
     <<"U+042D", "U+044D">>, <<"U+042E", "U+044E">>, <<"U+042F", "U+044F">>,
     <<"U+0460", "U+0461">>, <<"U+0462", "U+0463">>, <<"U+0464", "U+0465">>,
     <<"U+0466", "U+0467">>, <<"U+0468", "U+0469">>, <<"U+046A", "U+046B">>,
     <<"U+046C", "U+046D">>, <<"U+046E", "U+046F">>, <<"U+0470", "U+0471">>,
     <<"U+0472", "U+0473">>, <<"U+0474", "U+0475">>, <<"U+0476", "U+0477">>,
     <<"U+0478", "U+0479">>, <<"U+047A", "U+047B">>, <<"U+047C", "U+047D">>,
     <<"U+047E", "U+047F">>, <<"Ҁ", "ҁ">>, <<"Ҋ", "ҋ">>, <<"Ҍ", "ҍ">>, <<"Ҏ", "ҏ">>,
     <<"Ґ", "ґ">>, <<"Ғ", "ғ">>, <<"Ҕ", "ҕ">>, <<"Җ", "җ">>, <<"Ҙ", "ҙ">>, <<"Қ", "қ">>,
     <<"Ҝ", "ҝ">>, <<"Ҟ", "ҟ">>, <<"Ҡ", "ҡ">>, <<"Ң", "ң">>, <<"Ҥ", "ҥ">>, <<"Ҧ", "ҧ">>,
     <<"Ҩ", "ҩ">>, <<"Ҫ", "ҫ">>, <<"Ҭ", "ҭ">>, <<"Ү", "ү">>, <<"Ұ", "ұ">>, <<"Ҳ", "ҳ">>,
     <<"Ҵ", "ҵ">>, <<"Ҷ", "ҷ">>, <<"Ҹ", "ҹ">>, <<"Һ", "һ">>, <<"Ҽ", "ҽ">>, <<"Ҿ", "ҿ">>,
     <<"Ӏ", "ӏ">>, <<"Ӂ", "ӂ">>, <<"Ӄ", "ӄ">>, <<"Ӆ", "ӆ">>, <<"Ӈ", "ӈ">>, <<"Ӊ", "ӊ">>,
     <<"Ӌ", "ӌ">>, <<"Ӎ", "ӎ">>, <<"Ӑ", "ӑ">>, <<"Ӓ", "ӓ">>, <<"Ӕ", "ӕ">>, <<"Ӗ", "ӗ">>,
     <<"Ә", "ә">>, <<"Ӛ", "ӛ">>, <<"Ӝ", "ӝ">>, <<"Ӟ", "ӟ">>, <<"Ӡ", "ӡ">>, <<"Ӣ", "ӣ">>,
     <<"Ӥ", "ӥ">>, <<"Ӧ", "ӧ">>, <<"Ө", "ө">>, <<"Ӫ", "ӫ">>, <<"Ӭ", "ӭ">>, <<"Ӯ", "ӯ">>,
     <<"Ӱ", "ӱ">>, <<"Ӳ", "ӳ">>, <<"Ӵ", "ӵ">>, <<"Ӷ", "ӷ">>, <<"Ӹ", "ӹ">>, <<"Ӻ", "ӻ">>,
     <<"Ӽ", "ӽ">>, <<"Ӿ", "ӿ">>, <<"U+0500", "U+0501">>, <<"U+0502", "U+0503">>,
     <<"U+0504", "U+0505">>, <<"U+0506", "U+0507">>, <<"U+0508", "U+0509">>,
     <<"U+050A", "U+050B">>, <<"U+050C", "U+050D">>, <<"U+050E", "U+050F">>,
     <<"U+0510", "U+0511">>, <<"U+0512", "U+0513">>, <<"U+0514", "U+0515">>,
     <<"U+0516", "U+0517">>, <<"U+0518", "U+0519">>, <<"U+051A", "U+051B">>,
     <<"U+051C", "U+051D">>, <<"U+051E", "U+051F">>, <<"U+0520", "U+0521">>,
     <<"U+0522", "U+0523">>, <<"U+0524", "U+0525">>, <<"U+0526", "U+0527">>,
     <<"U+0528", "U+0529">>, <<"U+052A", "U+052B">>, <<"U+052C", "U+052D">>,
     <<"U+052E", "U+052F">>, <<"U+0531", "U+0561">>, <<"U+0532", "U+0562">>,
     <<"U+0533", "U+0563">>, <<"U+0534", "U+0564">>, <<"U+0535", "U+0565">>,
     <<"U+0536", "U+0566">>, <<"U+0537", "U+0567">>, <<"U+0538", "U+0568">>,
     <<"U+0539", "U+0569">>, <<"U+053A", "U+056A">>, <<"U+053B", "U+056B">>,
     <<"U+053C", "U+056C">>, <<"U+053D", "U+056D">>, <<"U+053E", "U+056E">>,
     <<"U+053F", "U+056F">>, <<"U+0540", "U+0570">>, <<"U+0541", "U+0571">>,
     <<"U+0542", "U+0572">>, <<"U+0543", "U+0573">>, <<"U+0544", "U+0574">>,
     <<"U+0545", "U+0575">>, <<"U+0546", "U+0576">>, <<"U+0547", "U+0577">>,
     <<"U+0548", "U+0578">>, <<"U+0549", "U+0579">>, <<"U+054A", "U+057A">>,
     <<"U+054B", "U+057B">>, <<"U+054C", "U+057C">>, <<"U+054D", "U+057D">>,
     <<"U+054E", "U+057E">>, <<"U+054F", "U+057F">>, <<"U+0550", "ր">>, <<"U+0551", "ց">>,
     <<"U+0552", "ւ">>, <<"U+0553", "փ">>, <<"U+0554", "ք">>, <<"U+0555", "օ">>,
     <<"U+0556", "ֆ">>, <<"Ⴀ", "U+2D00">>, <<"Ⴁ", "U+2D01">>, <<"Ⴂ", "U+2D02">>,
     <<"Ⴃ", "U+2D03">>, <<"Ⴄ", "U+2D04">>, <<"Ⴅ", "U+2D05">>, <<"Ⴆ", "U+2D06">>,
     <<"Ⴇ", "U+2D07">>, <<"Ⴈ", "U+2D08">>, <<"Ⴉ", "U+2D09">>, <<"Ⴊ", "U+2D0A">>,
     <<"Ⴋ", "U+2D0B">>, <<"Ⴌ", "U+2D0C">>, <<"Ⴍ", "U+2D0D">>, <<"Ⴎ", "U+2D0E">>,
     <<"Ⴏ", "U+2D0F">>, <<"Ⴐ", "U+2D10">>, <<"Ⴑ", "U+2D11">>, <<"Ⴒ", "U+2D12">>,
     <<"Ⴓ", "U+2D13">>, <<"Ⴔ", "U+2D14">>, <<"Ⴕ", "U+2D15">>, <<"Ⴖ", "U+2D16">>,
     <<"Ⴗ", "U+2D17">>, <<"Ⴘ", "U+2D18">>, <<"Ⴙ", "U+2D19">>, <<"Ⴚ", "U+2D1A">>,
     <<"Ⴛ", "U+2D1B">>, <<"Ⴜ", "U+2D1C">>, <<"Ⴝ", "U+2D1D">>, <<"Ⴞ", "U+2D1E">>,
     <<"Ⴟ", "U+2D1F">>, <<"Ⴠ", "U+2D20">>, <<"Ⴡ", "U+2D21">>, <<"Ⴢ", "U+2D22">>,
     <<"Ⴣ", "U+2D23">>, <<"Ⴤ", "U+2D24">>, <<"Ⴥ", "U+2D25">>, <<"Ⴧ", "U+2D27">>,
     <<"Ⴭ", "U+2D2D">>, <<"Ꭰ", "U+AB70">>, <<"Ꭱ", "U+AB71">>, <<"Ꭲ", "U+AB72">>,
     <<"Ꭳ", "U+AB73">>, <<"Ꭴ", "U+AB74">>, <<"Ꭵ", "U+AB75">>, <<"Ꭶ", "U+AB76">>,
     <<"Ꭷ", "U+AB77">>, <<"Ꭸ", "U+AB78">>, <<"Ꭹ", "U+AB79">>, <<"Ꭺ", "U+AB7A">>,
     <<"Ꭻ", "U+AB7B">>, <<"Ꭼ", "U+AB7C">>, <<"Ꭽ", "U+AB7D">>, <<"Ꭾ", "U+AB7E">>,
     <<"Ꭿ", "U+AB7F">>, <<"Ꮀ", "ꮀ">>, <<"Ꮁ", "ꮁ">>, <<"Ꮂ", "ꮂ">>, <<"Ꮃ", "ꮃ">>, <<"Ꮄ", "ꮄ">>,
     <<"Ꮅ", "ꮅ">>, <<"Ꮆ", "ꮆ">>, <<"Ꮇ", "ꮇ">>, <<"Ꮈ", "ꮈ">>, <<"Ꮉ", "ꮉ">>, <<"Ꮊ", "ꮊ">>,
     <<"Ꮋ", "ꮋ">>, <<"Ꮌ", "ꮌ">>, <<"Ꮍ", "ꮍ">>, <<"Ꮎ", "ꮎ">>, <<"Ꮏ", "ꮏ">>, <<"Ꮐ", "ꮐ">>,
     <<"Ꮑ", "ꮑ">>, <<"Ꮒ", "ꮒ">>, <<"Ꮓ", "ꮓ">>, <<"Ꮔ", "ꮔ">>, <<"Ꮕ", "ꮕ">>, <<"Ꮖ", "ꮖ">>,
     <<"Ꮗ", "ꮗ">>, <<"Ꮘ", "ꮘ">>, <<"Ꮙ", "ꮙ">>, <<"Ꮚ", "ꮚ">>, <<"Ꮛ", "ꮛ">>, <<"Ꮜ", "ꮜ">>,
     <<"Ꮝ", "ꮝ">>, <<"Ꮞ", "ꮞ">>, <<"Ꮟ", "ꮟ">>, <<"Ꮠ", "ꮠ">>, <<"Ꮡ", "ꮡ">>, <<"Ꮢ", "ꮢ">>,
     <<"Ꮣ", "ꮣ">>, <<"Ꮤ", "ꮤ">>, <<"Ꮥ", "ꮥ">>, <<"Ꮦ", "ꮦ">>, <<"Ꮧ", "ꮧ">>, <<"Ꮨ", "ꮨ">>,
     <<"Ꮩ", "ꮩ">>, <<"Ꮪ", "ꮪ">>, <<"Ꮫ", "ꮫ">>, <<"Ꮬ", "ꮬ">>, <<"Ꮭ", "ꮭ">>, <<"Ꮮ", "ꮮ">>,
     <<"Ꮯ", "ꮯ">>, <<"Ꮰ", "ꮰ">>, <<"Ꮱ", "ꮱ">>, <<"Ꮲ", "ꮲ">>, <<"Ꮳ", "ꮳ">>, <<"Ꮴ", "ꮴ">>,
     <<"Ꮵ", "ꮵ">>, <<"Ꮶ", "ꮶ">>, <<"Ꮷ", "ꮷ">>, <<"Ꮸ", "ꮸ">>, <<"Ꮹ", "ꮹ">>, <<"Ꮺ", "ꮺ">>,
     <<"Ꮻ", "ꮻ">>, <<"Ꮼ", "ꮼ">>, <<"Ꮽ", "ꮽ">>, <<"Ꮾ", "ꮾ">>, <<"Ꮿ", "ꮿ">>, <<"Ᏸ", "ᏸ">>,
     <<"Ᏹ", "ᏹ">>, <<"Ᏺ", "ᏺ">>, <<"Ᏻ", "ᏻ">>, <<"Ᏼ", "ᏼ">>, <<"Ᏽ", "ᏽ">>, <<"Ა", "ა">>,
     <<"Ბ", "ბ">>, <<"Გ", "გ">>, <<"Დ", "დ">>, <<"Ე", "ე">>, <<"Ვ", "ვ">>, <<"Ზ", "ზ">>,
     <<"Თ", "თ">>, <<"Ი", "ი">>, <<"Კ", "კ">>, <<"Ლ", "ლ">>, <<"Მ", "მ">>, <<"Ნ", "ნ">>,
     <<"Ო", "ო">>, <<"Პ", "პ">>, <<"Ჟ", "ჟ">>, <<"Რ", "რ">>, <<"Ს", "ს">>, <<"Ტ", "ტ">>,
     <<"Უ", "უ">>, <<"Ფ", "ფ">>, <<"Ქ", "ქ">>, <<"Ღ", "ღ">>, <<"Ყ", "ყ">>, <<"Შ", "შ">>,
     <<"Ჩ", "ჩ">>, <<"Ც", "ც">>, <<"Ძ", "ძ">>, <<"Წ", "წ">>, <<"Ჭ", "ჭ">>, <<"Ხ", "ხ">>,
     <<"Ჯ", "ჯ">>, <<"Ჰ", "ჰ">>, <<"Ჱ", "ჱ">>, <<"Ჲ", "ჲ">>, <<"Ჳ", "ჳ">>, <<"Ჴ", "ჴ">>,
     <<"Ჵ", "ჵ">>, <<"Ჶ", "ჶ">>, <<"Ჷ", "ჷ">>, <<"Ჸ", "ჸ">>, <<"Ჹ", "ჹ">>, <<"Ჺ", "ჺ">>,
     <<"Ჽ", "ჽ">>, <<"Ჾ", "ჾ">>, <<"Ჿ", "ჿ">>, <<"U+1E00", "U+1E01">>, <<"U+1E02", "U+1E03">>,
     <<"U+1E04", "U+1E05">>, <<"U+1E06", "U+1E07">>, <<"U+1E08", "U+1E09">>,
     <<"U+1E0A", "U+1E0B">>, <<"U+1E0C", "U+1E0D">>, <<"U+1E0E", "U+1E0F">>,
     <<"U+1E10", "U+1E11">>, <<"U+1E12", "U+1E13">>, <<"U+1E14", "U+1E15">>,
     <<"U+1E16", "U+1E17">>, <<"U+1E18", "U+1E19">>, <<"U+1E1A", "U+1E1B">>,
     <<"U+1E1C", "U+1E1D">>, <<"U+1E1E", "U+1E1F">>, <<"U+1E20", "U+1E21">>,
     <<"U+1E22", "U+1E23">>, <<"U+1E24", "U+1E25">>, <<"U+1E26", "U+1E27">>,
     <<"U+1E28", "U+1E29">>, <<"U+1E2A", "U+1E2B">>, <<"U+1E2C", "U+1E2D">>,
     <<"U+1E2E", "U+1E2F">>, <<"U+1E30", "U+1E31">>, <<"U+1E32", "U+1E33">>,
     <<"U+1E34", "U+1E35">>, <<"U+1E36", "U+1E37">>, <<"U+1E38", "U+1E39">>,
     <<"U+1E3A", "U+1E3B">>, <<"U+1E3C", "U+1E3D">>, <<"U+1E3E", "U+1E3F">>,
     <<"U+1E40", "U+1E41">>, <<"U+1E42", "U+1E43">>, <<"U+1E44", "U+1E45">>,
     <<"U+1E46", "U+1E47">>, <<"U+1E48", "U+1E49">>, <<"U+1E4A", "U+1E4B">>,
     <<"U+1E4C", "U+1E4D">>, <<"U+1E4E", "U+1E4F">>, <<"U+1E50", "U+1E51">>,
     <<"U+1E52", "U+1E53">>, <<"U+1E54", "U+1E55">>, <<"U+1E56", "U+1E57">>,
     <<"U+1E58", "U+1E59">>, <<"U+1E5A", "U+1E5B">>, <<"U+1E5C", "U+1E5D">>,
     <<"U+1E5E", "U+1E5F">>, <<"U+1E60", "U+1E61">>, <<"U+1E62", "U+1E63">>,
     <<"U+1E64", "U+1E65">>, <<"U+1E66", "U+1E67">>, <<"U+1E68", "U+1E69">>,
     <<"U+1E6A", "U+1E6B">>, <<"U+1E6C", "U+1E6D">>, <<"U+1E6E", "U+1E6F">>,
     <<"U+1E70", "U+1E71">>, <<"U+1E72", "U+1E73">>, <<"U+1E74", "U+1E75">>,
     <<"U+1E76", "U+1E77">>, <<"U+1E78", "U+1E79">>, <<"U+1E7A", "U+1E7B">>,
     <<"U+1E7C", "U+1E7D">>, <<"U+1E7E", "U+1E7F">>, <<"Ẁ", "ẁ">>, <<"Ẃ", "ẃ">>, <<"Ẅ", "ẅ">>,
     <<"Ẇ", "ẇ">>, <<"Ẉ", "ẉ">>, <<"Ẋ", "ẋ">>, <<"Ẍ", "ẍ">>, <<"Ẏ", "ẏ">>, <<"Ẑ", "ẑ">>,
     <<"Ẓ", "ẓ">>, <<"Ẕ", "ẕ">>, <<"ẞ", "ß">>, <<"Ạ", "ạ">>, <<"Ả", "ả">>, <<"Ấ", "ấ">>,
     <<"Ầ", "ầ">>, <<"Ẩ", "ẩ">>, <<"Ẫ", "ẫ">>, <<"Ậ", "ậ">>, <<"Ắ", "ắ">>, <<"Ằ", "ằ">>,
     <<"Ẳ", "ẳ">>, <<"Ẵ", "ẵ">>, <<"Ặ", "ặ">>, <<"Ẹ", "ẹ">>, <<"Ẻ", "ẻ">>, <<"Ẽ", "ẽ">>,
     <<"Ế", "ế">>, <<"Ề", "ề">>, <<"Ể", "ể">>, <<"Ễ", "ễ">>, <<"Ệ", "ệ">>, <<"Ỉ", "ỉ">>,
     <<"Ị", "ị">>, <<"Ọ", "ọ">>, <<"Ỏ", "ỏ">>, <<"Ố", "ố">>, <<"Ồ", "ồ">>, <<"Ổ", "ổ">>,
     <<"Ỗ", "ỗ">>, <<"Ộ", "ộ">>, <<"Ớ", "ớ">>, <<"Ờ", "ờ">>, <<"Ở", "ở">>, <<"Ỡ", "ỡ">>,
     <<"Ợ", "ợ">>, <<"Ụ", "ụ">>, <<"Ủ", "ủ">>, <<"Ứ", "ứ">>, <<"Ừ", "ừ">>, <<"Ử", "ử">>,
     <<"Ữ", "ữ">>, <<"Ự", "ự">>, <<"Ỳ", "ỳ">>, <<"Ỵ", "ỵ">>, <<"Ỷ", "ỷ">>, <<"Ỹ", "ỹ">>,
     <<"Ỻ", "ỻ">>, <<"Ỽ", "ỽ">>, <<"Ỿ", "ỿ">>, <<"U+1F08", "U+1F00">>, <<"U+1F09", "U+1F01">>,
     <<"U+1F0A", "U+1F02">>, <<"U+1F0B", "U+1F03">>, <<"U+1F0C", "U+1F04">>,
     <<"U+1F0D", "U+1F05">>, <<"U+1F0E", "U+1F06">>, <<"U+1F0F", "U+1F07">>,
     <<"U+1F18", "U+1F10">>, <<"U+1F19", "U+1F11">>, <<"U+1F1A", "U+1F12">>,
     <<"U+1F1B", "U+1F13">>, <<"U+1F1C", "U+1F14">>, <<"U+1F1D", "U+1F15">>,
     <<"U+1F28", "U+1F20">>, <<"U+1F29", "U+1F21">>, <<"U+1F2A", "U+1F22">>,
     <<"U+1F2B", "U+1F23">>, <<"U+1F2C", "U+1F24">>, <<"U+1F2D", "U+1F25">>,
     <<"U+1F2E", "U+1F26">>, <<"U+1F2F", "U+1F27">>, <<"U+1F38", "U+1F30">>,
     <<"U+1F39", "U+1F31">>, <<"U+1F3A", "U+1F32">>, <<"U+1F3B", "U+1F33">>,
     <<"U+1F3C", "U+1F34">>, <<"U+1F3D", "U+1F35">>, <<"U+1F3E", "U+1F36">>,
     <<"U+1F3F", "U+1F37">>, <<"U+1F48", "U+1F40">>, <<"U+1F49", "U+1F41">>,
     <<"U+1F4A", "U+1F42">>, <<"U+1F4B", "U+1F43">>, <<"U+1F4C", "U+1F44">>,
     <<"U+1F4D", "U+1F45">>, <<"U+1F59", "U+1F51">>, <<"U+1F5B", "U+1F53">>,
     <<"U+1F5D", "U+1F55">>, <<"U+1F5F", "U+1F57">>, <<"U+1F68", "U+1F60">>,
     <<"U+1F69", "U+1F61">>, <<"U+1F6A", "U+1F62">>, <<"U+1F6B", "U+1F63">>,
     <<"U+1F6C", "U+1F64">>, <<"U+1F6D", "U+1F65">>, <<"U+1F6E", "U+1F66">>,
     <<"U+1F6F", "U+1F67">>, <<"ᾈ", "ᾀ">>, <<"ᾉ", "ᾁ">>, <<"ᾊ", "ᾂ">>, <<"ᾋ", "ᾃ">>,
     <<"ᾌ", "ᾄ">>, <<"ᾍ", "ᾅ">>, <<"ᾎ", "ᾆ">>, <<"ᾏ", "ᾇ">>, <<"ᾘ", "ᾐ">>, <<"ᾙ", "ᾑ">>,
     <<"ᾚ", "ᾒ">>, <<"ᾛ", "ᾓ">>, <<"ᾜ", "ᾔ">>, <<"ᾝ", "ᾕ">>, <<"ᾞ", "ᾖ">>, <<"ᾟ", "ᾗ">>,
     <<"ᾨ", "ᾠ">>, <<"ᾩ", "ᾡ">>, <<"ᾪ", "ᾢ">>, <<"ᾫ", "ᾣ">>, <<"ᾬ", "ᾤ">>, <<"ᾭ", "ᾥ">>,
     <<"ᾮ", "ᾦ">>, <<"ᾯ", "ᾧ">>, <<"Ᾰ", "ᾰ">>, <<"Ᾱ", "ᾱ">>, <<"Ὰ", "U+1F70">>,
     <<"Ά", "U+1F71">>, <<"ᾼ", "ᾳ">>, <<"Ὲ", "U+1F72">>, <<"Έ", "U+1F73">>, <<"Ὴ", "U+1F74">>,
     <<"Ή", "U+1F75">>, <<"ῌ", "ῃ">>, <<"Ῐ", "ῐ">>, <<"Ῑ", "ῑ">>, <<"Ὶ", "U+1F76">>,
     <<"Ί", "U+1F77">>, <<"Ῠ", "ῠ">>, <<"Ῡ", "ῡ">>, <<"Ὺ", "U+1F7A">>, <<"Ύ", "U+1F7B">>,
     <<"Ῥ", "ῥ">>, <<"Ὸ", "U+1F78">>, <<"Ό", "U+1F79">>, <<"Ὼ", "U+1F7C">>, <<"Ώ", "U+1F7D">>,
     <<"ῼ", "ῳ">>, <<"U+2126", "ω">>, <<"U+212A", "k">>, <<"U+212B", "å">>,
     <<"U+2132", "U+214E">>, <<"U+2160", "U+2170">>, <<"U+2161", "U+2171">>,
     <<"U+2162", "U+2172">>, <<"U+2163", "U+2173">>, <<"U+2164", "U+2174">>,
     <<"U+2165", "U+2175">>, <<"U+2166", "U+2176">>, <<"U+2167", "U+2177">>,
     <<"U+2168", "U+2178">>, <<"U+2169", "U+2179">>, <<"U+216A", "U+217A">>,
     <<"U+216B", "U+217B">>, <<"U+216C", "U+217C">>, <<"U+216D", "U+217D">>,
     <<"U+216E", "U+217E">>, <<"U+216F", "U+217F">>, <<"Ↄ", "ↄ">>, <<"Ⓐ", "ⓐ">>, <<"Ⓑ", "ⓑ">>,
     <<"Ⓒ", "ⓒ">>, <<"Ⓓ", "ⓓ">>, <<"Ⓔ", "ⓔ">>, <<"Ⓕ", "ⓕ">>, <<"Ⓖ", "ⓖ">>, <<"Ⓗ", "ⓗ">>,
     <<"Ⓘ", "ⓘ">>, <<"Ⓙ", "ⓙ">>, <<"Ⓚ", "ⓚ">>, <<"Ⓛ", "ⓛ">>, <<"Ⓜ", "ⓜ">>, <<"Ⓝ", "ⓝ">>,
     <<"Ⓞ", "ⓞ">>, <<"Ⓟ", "ⓟ">>, <<"Ⓠ", "ⓠ">>, <<"Ⓡ", "ⓡ">>, <<"Ⓢ", "ⓢ">>, <<"Ⓣ", "ⓣ">>,
     <<"Ⓤ", "ⓤ">>, <<"Ⓥ", "ⓥ">>, <<"Ⓦ", "ⓦ">>, <<"Ⓧ", "ⓧ">>, <<"Ⓨ", "ⓨ">>, <<"Ⓩ", "ⓩ">>,
     <<"U+2C00", "U+2C30">>, <<"U+2C01", "U+2C31">>, <<"U+2C02", "U+2C32">>,
     <<"U+2C03", "U+2C33">>, <<"U+2C04", "U+2C34">>, <<"U+2C05", "U+2C35">>,
     <<"U+2C06", "U+2C36">>, <<"U+2C07", "U+2C37">>, <<"U+2C08", "U+2C38">>,
     <<"U+2C09", "U+2C39">>, <<"U+2C0A", "U+2C3A">>, <<"U+2C0B", "U+2C3B">>,
     <<"U+2C0C", "U+2C3C">>, <<"U+2C0D", "U+2C3D">>, <<"U+2C0E", "U+2C3E">>,
     <<"U+2C0F", "U+2C3F">>, <<"U+2C10", "U+2C40">>, <<"U+2C11", "U+2C41">>,
     <<"U+2C12", "U+2C42">>, <<"U+2C13", "U+2C43">>, <<"U+2C14", "U+2C44">>,
     <<"U+2C15", "U+2C45">>, <<"U+2C16", "U+2C46">>, <<"U+2C17", "U+2C47">>,
     <<"U+2C18", "U+2C48">>, <<"U+2C19", "U+2C49">>, <<"U+2C1A", "U+2C4A">>,
     <<"U+2C1B", "U+2C4B">>, <<"U+2C1C", "U+2C4C">>, <<"U+2C1D", "U+2C4D">>,
     <<"U+2C1E", "U+2C4E">>, <<"U+2C1F", "U+2C4F">>, <<"U+2C20", "U+2C50">>,
     <<"U+2C21", "U+2C51">>, <<"U+2C22", "U+2C52">>, <<"U+2C23", "U+2C53">>,
     <<"U+2C24", "U+2C54">>, <<"U+2C25", "U+2C55">>, <<"U+2C26", "U+2C56">>,
     <<"U+2C27", "U+2C57">>, <<"U+2C28", "U+2C58">>, <<"U+2C29", "U+2C59">>,
     <<"U+2C2A", "U+2C5A">>, <<"U+2C2B", "U+2C5B">>, <<"U+2C2C", "U+2C5C">>,
     <<"U+2C2D", "U+2C5D">>, <<"U+2C2E", "U+2C5E">>, <<"U+2C2F", "U+2C5F">>,
     <<"U+2C60", "U+2C61">>, <<"U+2C62", "U+026B">>, <<"U+2C63", "U+1D7D">>,
     <<"U+2C64", "U+027D">>, <<"U+2C67", "U+2C68">>, <<"U+2C69", "U+2C6A">>,
     <<"U+2C6B", "U+2C6C">>, <<"U+2C6D", "U+0251">>, <<"U+2C6E", "U+0271">>,
     <<"U+2C6F", "U+0250">>, <<"U+2C70", "U+0252">>, <<"U+2C72", "U+2C73">>,
     <<"U+2C75", "U+2C76">>, <<"U+2C7E", "U+023F">>, <<"U+2C7F", "U+0240">>, <<"Ⲁ", "ⲁ">>,
     <<"Ⲃ", "ⲃ">>, <<"Ⲅ", "ⲅ">>, <<"Ⲇ", "ⲇ">>, <<"Ⲉ", "ⲉ">>, <<"Ⲋ", "ⲋ">>, <<"Ⲍ", "ⲍ">>,
     <<"Ⲏ", "ⲏ">>, <<"Ⲑ", "ⲑ">>, <<"Ⲓ", "ⲓ">>, <<"Ⲕ", "ⲕ">>, <<"Ⲗ", "ⲗ">>, <<"Ⲙ", "ⲙ">>,
     <<"Ⲛ", "ⲛ">>, <<"Ⲝ", "ⲝ">>, <<"Ⲟ", "ⲟ">>, <<"Ⲡ", "ⲡ">>, <<"Ⲣ", "ⲣ">>, <<"Ⲥ", "ⲥ">>,
     <<"Ⲧ", "ⲧ">>, <<"Ⲩ", "ⲩ">>, <<"Ⲫ", "ⲫ">>, <<"Ⲭ", "ⲭ">>, <<"Ⲯ", "ⲯ">>, <<"Ⲱ", "ⲱ">>,
     <<"Ⲳ", "ⲳ">>, <<"Ⲵ", "ⲵ">>, <<"Ⲷ", "ⲷ">>, <<"Ⲹ", "ⲹ">>, <<"Ⲻ", "ⲻ">>, <<"Ⲽ", "ⲽ">>,
     <<"Ⲿ", "ⲿ">>, <<"Ⳁ", "ⳁ">>, <<"Ⳃ", "ⳃ">>, <<"Ⳅ", "ⳅ">>, <<"Ⳇ", "ⳇ">>, <<"Ⳉ", "ⳉ">>,
     <<"Ⳋ", "ⳋ">>, <<"Ⳍ", "ⳍ">>, <<"Ⳏ", "ⳏ">>, <<"Ⳑ", "ⳑ">>, <<"Ⳓ", "ⳓ">>, <<"Ⳕ", "ⳕ">>,
     <<"Ⳗ", "ⳗ">>, <<"Ⳙ", "ⳙ">>, <<"Ⳛ", "ⳛ">>, <<"Ⳝ", "ⳝ">>, <<"Ⳟ", "ⳟ">>, <<"Ⳡ", "ⳡ">>,
     <<"Ⳣ", "ⳣ">>, <<"Ⳬ", "ⳬ">>, <<"Ⳮ", "ⳮ">>, <<"Ⳳ", "ⳳ">>, <<"U+A640", "U+A641">>,
     <<"U+A642", "U+A643">>, <<"U+A644", "U+A645">>, <<"U+A646", "U+A647">>,
     <<"U+A648", "U+A649">>, <<"U+A64A", "U+A64B">>, <<"U+A64C", "U+A64D">>,
     <<"U+A64E", "U+A64F">>, <<"U+A650", "U+A651">>, <<"U+A652", "U+A653">>,
     <<"U+A654", "U+A655">>, <<"U+A656", "U+A657">>, <<"U+A658", "U+A659">>,
     <<"U+A65A", "U+A65B">>, <<"U+A65C", "U+A65D">>, <<"U+A65E", "U+A65F">>,
     <<"U+A660", "U+A661">>, <<"U+A662", "U+A663">>, <<"U+A664", "U+A665">>,
     <<"U+A666", "U+A667">>, <<"U+A668", "U+A669">>, <<"U+A66A", "U+A66B">>,
     <<"U+A66C", "U+A66D">>, <<"Ꚁ", "ꚁ">>, <<"Ꚃ", "ꚃ">>, <<"Ꚅ", "ꚅ">>, <<"Ꚇ", "ꚇ">>,
     <<"Ꚉ", "ꚉ">>, <<"Ꚋ", "ꚋ">>, <<"Ꚍ", "ꚍ">>, <<"Ꚏ", "ꚏ">>, <<"Ꚑ", "ꚑ">>, <<"Ꚓ", "ꚓ">>,
     <<"Ꚕ", "ꚕ">>, <<"Ꚗ", "ꚗ">>, <<"Ꚙ", "ꚙ">>, <<"Ꚛ", "ꚛ">>, <<"U+A722", "U+A723">>,
     <<"U+A724", "U+A725">>, <<"U+A726", "U+A727">>, <<"U+A728", "U+A729">>,
     <<"U+A72A", "U+A72B">>, <<"U+A72C", "U+A72D">>, <<"U+A72E", "U+A72F">>,
     <<"U+A732", "U+A733">>, <<"U+A734", "U+A735">>, <<"U+A736", "U+A737">>,
     <<"U+A738", "U+A739">>, <<"U+A73A", "U+A73B">>, <<"U+A73C", "U+A73D">>,
     <<"U+A73E", "U+A73F">>, <<"U+A740", "U+A741">>, <<"U+A742", "U+A743">>,
     <<"U+A744", "U+A745">>, <<"U+A746", "U+A747">>, <<"U+A748", "U+A749">>,
     <<"U+A74A", "U+A74B">>, <<"U+A74C", "U+A74D">>, <<"U+A74E", "U+A74F">>,
     <<"U+A750", "U+A751">>, <<"U+A752", "U+A753">>, <<"U+A754", "U+A755">>,
     <<"U+A756", "U+A757">>, <<"U+A758", "U+A759">>, <<"U+A75A", "U+A75B">>,
     <<"U+A75C", "U+A75D">>, <<"U+A75E", "U+A75F">>, <<"U+A760", "U+A761">>,
     <<"U+A762", "U+A763">>, <<"U+A764", "U+A765">>, <<"U+A766", "U+A767">>,
     <<"U+A768", "U+A769">>, <<"U+A76A", "U+A76B">>, <<"U+A76C", "U+A76D">>,
     <<"U+A76E", "U+A76F">>, <<"U+A779", "U+A77A">>, <<"U+A77B", "U+A77C">>,
     <<"U+A77D", "U+1D79">>, <<"U+A77E", "U+A77F">>, <<"Ꞁ", "ꞁ">>, <<"Ꞃ", "ꞃ">>, <<"Ꞅ", "ꞅ">>,
     <<"Ꞇ", "ꞇ">>, <<"Ꞌ", "ꞌ">>, <<"Ɥ", "U+0265">>, <<"Ꞑ", "ꞑ">>, <<"Ꞓ", "ꞓ">>, <<"Ꞗ", "ꞗ">>,
     <<"Ꞙ", "ꞙ">>, <<"Ꞛ", "ꞛ">>, <<"Ꞝ", "ꞝ">>, <<"Ꞟ", "ꞟ">>, <<"Ꞡ", "ꞡ">>, <<"Ꞣ", "ꞣ">>,
     <<"Ꞥ", "ꞥ">>, <<"Ꞧ", "ꞧ">>, <<"Ꞩ", "ꞩ">>, <<"Ɦ", "U+0266">>, <<"Ɜ", "U+025C">>,
     <<"Ɡ", "U+0261">>, <<"Ɬ", "U+026C">>, <<"Ɪ", "U+026A">>, <<"Ʞ", "ʞ">>, <<"Ʇ", "ʇ">>,
     <<"Ʝ", "ʝ">>, <<"Ꭓ", "U+AB53">>, <<"Ꞵ", "ꞵ">>, <<"Ꞷ", "ꞷ">>, <<"Ꞹ", "ꞹ">>, <<"Ꞻ", "ꞻ">>,
     <<"Ꞽ", "ꞽ">>, <<"Ꞿ", "ꞿ">>, <<"Ꟁ", "ꟁ">>, <<"Ꟃ", "ꟃ">>, <<"Ꞔ", "ꞔ">>, <<"Ʂ", "ʂ">>,
     <<"Ᶎ", "ᶎ">>, <<"Ꟈ", "ꟈ">>, <<"Ꟊ", "ꟊ">>, <<"Ꟑ", "ꟑ">>, <<"Ꟗ", "ꟗ">>, <<"Ꟙ", "ꟙ">>,
     <<"Ꟶ", "ꟶ">>, <<"U+FF21", "U+FF41">>, <<"U+FF22", "U+FF42">>, <<"U+FF23", "U+FF43">>,
     <<"U+FF24", "U+FF44">>, <<"U+FF25", "U+FF45">>, <<"U+FF26", "U+FF46">>,
     <<"U+FF27", "U+FF47">>, <<"U+FF28", "U+FF48">>, <<"U+FF29", "U+FF49">>,
     <<"U+FF2A", "U+FF4A">>, <<"U+FF2B", "U+FF4B">>, <<"U+FF2C", "U+FF4C">>,
     <<"U+FF2D", "U+FF4D">>, <<"U+FF2E", "U+FF4E">>, <<"U+FF2F", "U+FF4F">>,
     <<"U+FF30", "U+FF50">>, <<"U+FF31", "U+FF51">>, <<"U+FF32", "U+FF52">>,
     <<"U+FF33", "U+FF53">>, <<"U+FF34", "U+FF54">>, <<"U+FF35", "U+FF55">>,
     <<"U+FF36", "U+FF56">>, <<"U+FF37", "U+FF57">>, <<"U+FF38", "U+FF58">>,
     <<"U+FF39", "U+FF59">>, <<"U+FF3A", "U+FF5A">>, <<"U+10400", "U+10428">>,
     <<"U+10401", "U+10429">>, <<"U+10402", "U+1042A">>, <<"U+10403", "U+1042B">>,
     <<"U+10404", "U+1042C">>, <<"U+10405", "U+1042D">>, <<"U+10406", "U+1042E">>,
     <<"U+10407", "U+1042F">>, <<"U+10408", "U+10430">>, <<"U+10409", "U+10431">>,
     <<"U+1040A", "U+10432">>, <<"U+1040B", "U+10433">>, <<"U+1040C", "U+10434">>,
     <<"U+1040D", "U+10435">>, <<"U+1040E", "U+10436">>, <<"U+1040F", "U+10437">>,
     <<"U+10410", "U+10438">>, <<"U+10411", "U+10439">>, <<"U+10412", "U+1043A">>,
     <<"U+10413", "U+1043B">>, <<"U+10414", "U+1043C">>, <<"U+10415", "U+1043D">>,
     <<"U+10416", "U+1043E">>, <<"U+10417", "U+1043F">>, <<"U+10418", "U+10440">>,
     <<"U+10419", "U+10441">>, <<"U+1041A", "U+10442">>, <<"U+1041B", "U+10443">>,
     <<"U+1041C", "U+10444">>, <<"U+1041D", "U+10445">>, <<"U+1041E", "U+10446">>,
     <<"U+1041F", "U+10447">>, <<"U+10420", "U+10448">>, <<"U+10421", "U+10449">>,
     <<"U+10422", "U+1044A">>, <<"U+10423", "U+1044B">>, <<"U+10424", "U+1044C">>,
     <<"U+10425", "U+1044D">>, <<"U+10426", "U+1044E">>, <<"U+10427", "U+1044F">>,
     <<"U+104B0", "U+104D8">>, <<"U+104B1", "U+104D9">>, <<"U+104B2", "U+104DA">>,
     <<"U+104B3", "U+104DB">>, <<"U+104B4", "U+104DC">>, <<"U+104B5", "U+104DD">>,
     <<"U+104B6", "U+104DE">>, <<"U+104B7", "U+104DF">>, <<"U+104B8", "U+104E0">>,
     <<"U+104B9", "U+104E1">>, <<"U+104BA", "U+104E2">>, <<"U+104BB", "U+104E3">>,
     <<"U+104BC", "U+104E4">>, <<"U+104BD", "U+104E5">>, <<"U+104BE", "U+104E6">>,
     <<"U+104BF", "U+104E7">>, <<"U+104C0", "U+104E8">>, <<"U+104C1", "U+104E9">>,
     <<"U+104C2", "U+104EA">>, <<"U+104C3", "U+104EB">>, <<"U+104C4", "U+104EC">>,
     <<"U+104C5", "U+104ED">>, <<"U+104C6", "U+104EE">>, <<"U+104C7", "U+104EF">>,
     <<"U+104C8", "U+104F0">>, <<"U+104C9", "U+104F1">>, <<"U+104CA", "U+104F2">>,
     <<"U+104CB", "U+104F3">>, <<"U+104CC", "U+104F4">>, <<"U+104CD", "U+104F5">>,
     <<"U+104CE", "U+104F6">>, <<"U+104CF", "U+104F7">>, <<"U+104D0", "U+104F8">>,
     <<"U+104D1", "U+104F9">>, <<"U+104D2", "U+104FA">>, <<"U+104D3", "U+104FB">>,
     <<"U+10570", "U+10597">>, <<"U+10571", "U+10598">>, <<"U+10572", "U+10599">>,
     <<"U+10573", "U+1059A">>, <<"U+10574", "U+1059B">>, <<"U+10575", "U+1059C">>,
     <<"U+10576", "U+1059D">>, <<"U+10577", "U+1059E">>, <<"U+10578", "U+1059F">>,
     <<"U+10579", "U+105A0">>, <<"U+1057A", "U+105A1">>, <<"U+1057C", "U+105A3">>,
     <<"U+1057D", "U+105A4">>, <<"U+1057E", "U+105A5">>, <<"U+1057F", "U+105A6">>,
     <<"U+10580", "U+105A7">>, <<"U+10581", "U+105A8">>, <<"U+10582", "U+105A9">>,
     <<"U+10583", "U+105AA">>, <<"U+10584", "U+105AB">>, <<"U+10585", "U+105AC">>,
     <<"U+10586", "U+105AD">>, <<"U+10587", "U+105AE">>, <<"U+10588", "U+105AF">>,
     <<"U+10589", "U+105B0">>, <<"U+1058A", "U+105B1">>, <<"U+1058C", "U+105B3">>,
     <<"U+1058D", "U+105B4">>, <<"U+1058E", "U+105B5">>, <<"U+1058F", "U+105B6">>,
     <<"U+10590", "U+105B7">>, <<"U+10591", "U+105B8">>, <<"U+10592", "U+105B9">>,
     <<"U+10594", "U+105BB">>, <<"U+10595", "U+105BC">>, <<"U+10C80", "U+10CC0">>,
     <<"U+10C81", "U+10CC1">>, <<"U+10C82", "U+10CC2">>, <<"U+10C83", "U+10CC3">>,
     <<"U+10C84", "U+10CC4">>, <<"U+10C85", "U+10CC5">>, <<"U+10C86", "U+10CC6">>,
     <<"U+10C87", "U+10CC7">>, <<"U+10C88", "U+10CC8">>, <<"U+10C89", "U+10CC9">>,
     <<"U+10C8A", "U+10CCA">>, <<"U+10C8B", "U+10CCB">>, <<"U+10C8C", "U+10CCC">>,
     <<"U+10C8D", "U+10CCD">>, <<"U+10C8E", "U+10CCE">>, <<"U+10C8F", "U+10CCF">>,
     <<"U+10C90", "U+10CD0">>, <<"U+10C91", "U+10CD1">>, <<"U+10C92", "U+10CD2">>,
     <<"U+10C93", "U+10CD3">>, <<"U+10C94", "U+10CD4">>, <<"U+10C95", "U+10CD5">>,
     <<"U+10C96", "U+10CD6">>, <<"U+10C97", "U+10CD7">>, <<"U+10C98", "U+10CD8">>,
     <<"U+10C99", "U+10CD9">>, <<"U+10C9A", "U+10CDA">>, <<"U+10C9B", "U+10CDB">>,
     <<"U+10C9C", "U+10CDC">>, <<"U+10C9D", "U+10CDD">>, <<"U+10C9E", "U+10CDE">>,
     <<"U+10C9F", "U+10CDF">>, <<"U+10CA0", "U+10CE0">>, <<"U+10CA1", "U+10CE1">>,
     <<"U+10CA2", "U+10CE2">>, <<"U+10CA3", "U+10CE3">>, <<"U+10CA4", "U+10CE4">>,
     <<"U+10CA5", "U+10CE5">>, <<"U+10CA6", "U+10CE6">>, <<"U+10CA7", "U+10CE7">>,
     <<"U+10CA8", "U+10CE8">>, <<"U+10CA9", "U+10CE9">>, <<"U+10CAA", "U+10CEA">>,
     <<"U+10CAB", "U+10CEB">>, <<"U+10CAC", "U+10CEC">>, <<"U+10CAD", "U+10CED">>,
     <<"U+10CAE", "U+10CEE">>, <<"U+10CAF", "U+10CEF">>, <<"U+10CB0", "U+10CF0">>,
     <<"U+10CB1", "U+10CF1">>, <<"U+10CB2", "U+10CF2">>, <<"U+118A0", "U+118C0">>,
     <<"U+118A1", "U+118C1">>, <<"U+118A2", "U+118C2">>, <<"U+118A3", "U+118C3">>,
     <<"U+118A4", "U+118C4">>, <<"U+118A5", "U+118C5">>, <<"U+118A6", "U+118C6">>,
     <<"U+118A7", "U+118C7">>, <<"U+118A8", "U+118C8">>, <<"U+118A9", "U+118C9">>,
     <<"U+118AA", "U+118CA">>, <<"U+118AB", "U+118CB">>, <<"U+118AC", "U+118CC">>,
     <<"U+118AD", "U+118CD">>, <<"U+118AE", "U+118CE">>, <<"U+118AF", "U+118CF">>,
     <<"U+118B0", "U+118D0">>, <<"U+118B1", "U+118D1">>, <<"U+118B2", "U+118D2">>,
     <<"U+118B3", "U+118D3">>, <<"U+118B4", "U+118D4">>, <<"U+118B5", "U+118D5">>,
     <<"U+118B6", "U+118D6">>, <<"U+118B7", "U+118D7">>, <<"U+118B8", "U+118D8">>,
     <<"U+118B9", "U+118D9">>, <<"U+118BA", "U+118DA">>, <<"U+118BB", "U+118DB">>,
     <<"U+118BC", "U+118DC">>, <<"U+118BD", "U+118DD">>, <<"U+118BE", "U+118DE">>,
     <<"U+118BF", "U+118DF">>, <<"U+16E40", "U+16E60">>, <<"U+16E41", "U+16E61">>,
     <<"U+16E42", "U+16E62">>, <<"U+16E43", "U+16E63">>, <<"U+16E44", "U+16E64">>,
     <<"U+16E45", "U+16E65">>, <<"U+16E46", "U+16E66">>, <<"U+16E47", "U+16E67">>,
     <<"U+16E48", "U+16E68">>, <<"U+16E49", "U+16E69">>, <<"U+16E4A", "U+16E6A">>,
     <<"U+16E4B", "U+16E6B">>, <<"U+16E4C", "U+16E6C">>, <<"U+16E4D", "U+16E6D">>,
     <<"U+16E4E", "U+16E6E">>, <<"U+16E4F", "U+16E6F">>, <<"U+16E50", "U+16E70">>,
     <<"U+16E51", "U+16E71">>, <<"U+16E52", "U+16E72">>, <<"U+16E53", "U+16E73">>,
     <<"U+16E54", "U+16E74">>, <<"U+16E55", "U+16E75">>, <<"U+16E56", "U+16E76">>,
     <<"U+16E57", "U+16E77">>, <<"U+16E58", "U+16E78">>, <<"U+16E59", "U+16E79">>,
     <<"U+16E5A", "U+16E7A">>, <<"U+16E5B", "U+16E7B">>, <<"U+16E5C", "U+16E7C">>,
     <<"U+16E5D", "U+16E7D">>, <<"U+16E5E", "U+16E7E">>, <<"U+16E5F", "U+16E7F">>,
     <<"U+1E900", "U+1E922">>, <<"U+1E901", "U+1E923">>, <<"U+1E902", "U+1E924">>,
     <<"U+1E903", "U+1E925">>, <<"U+1E904", "U+1E926">>, <<"U+1E905", "U+1E927">>,
     <<"U+1E906", "U+1E928">>, <<"U+1E907", "U+1E929">>, <<"U+1E908", "U+1E92A">>,
     <<"U+1E909", "U+1E92B">>, <<"U+1E90A", "U+1E92C">>, <<"U+1E90B", "U+1E92D">>,
     <<"U+1E90C", "U+1E92E">>, <<"U+1E90D", "U+1E92F">>, <<"U+1E90E", "U+1E930">>,
     <<"U+1E90F", "U+1E931">>, <<"U+1E910", "U+1E932">>, <<"U+1E911", "U+1E933">>,
     <<"U+1E912", "U+1E934">>, <<"U+1E913", "U+1E935">>, <<"U+1E914", "U+1E936">>,
     <<"U+1E915", "U+1E937">>, <<"U+1E916", "U+1E938">>, <<"U+1E917", "U+1E939">>,
     <<"U+1E918", "U+1E93A">>, <<"U+1E919", "U+1E93B">>, <<"U+1E91A", "U+1E93C">>,
     <<"U+1E91B", "U+1E93D">>, <<"U+1E91C", "U+1E93E">>, <<"U+1E91D", "U+1E93F">>,
     <<"U+1E91E", "U+1E940">>, <<"U+1E91F", "U+1E941">>, <<"U+1E920", "U+1E942">>,
     <<"U+1E921", "U+1E943">>}

UpperChars == {p[1] : p \in LowerPairs}

LowerOf == [ch \in UpperChars |-> (CHOOSE p \in LowerPairs : p[1] = ch)[2]]

\* The cased characters that are not case-ignorable: the ones that put a
\* capital sigma next to them in or out of the final position.
CasedChars ==
    {"A", "B", "C", "D", "E", "F", "G", "H", "I", "J", "K", "L", "M", "N", "O", "P", "Q", "R",
     "S", "T", "U", "V", "W", "X", "Y", "Z", "a", "b", "c", "d", "e", "f", "g", "h", "i", "j",
     "k", "l", "m", "n", "o", "p", "q", "r", "s", "t", "u", "v", "w", "x", "y", "z", "ª", "µ",
     "º", "À", "Á", "Â", "Ã", "Ä", "Å", "Æ", "Ç", "È", "É", "Ê", "Ë", "Ì", "Í", "Î", "Ï", "Ð",
     "Ñ", "Ò", "Ó", "Ô", "Õ", "Ö", "Ø", "Ù", "Ú", "Û", "Ü", "Ý", "Þ", "ß", "à", "á", "â", "ã",
     "ä", "å", "æ", "ç", "è", "é", "ê", "ë", "ì", "í", "î", "ï", "ð", "ñ", "ò", "ó", "ô", "õ",
     "ö", "ø", "ù", "ú", "û", "ü", "ý", "þ", "ÿ", "U+0100", "U+0101", "U+0102", "U+0103",
     "U+0104", "U+0105", "U+0106", "U+0107", "U+0108", "U+0109", "U+010A", "U+010B", "U+010C",
     "U+010D", "U+010E", "U+010F", "U+0110", "U+0111", "U+0112", "U+0113", "U+0114", "U+0115",
     "U+0116", "U+0117", "U+0118", "U+0119", "U+011A", "U+011B", "U+011C", "U+011D", "U+011E",
     "U+011F", "U+0120", "U+0121", "U+0122", "U+0123", "U+0124", "U+0125", "U+0126", "U+0127",
     "U+0128", "U+0129", "U+012A", "U+012B", "U+012C", "U+012D", "U+012E", "U+012F", "U+0130",
     "U+0131", "U+0132", "U+0133", "U+0134", "U+0135", "U+0136", "U+0137", "U+0138", "U+0139",
     "U+013A", "U+013B", "U+013C", "U+013D", "U+013E", "U+013F", "U+0140", "U+0141", "U+0142",
     "U+0143", "U+0144", "U+0145", "U+0146", "U+0147", "U+0148", "U+0149", "U+014A", "U+014B",
     "U+014C", "U+014D", "U+014E", "U+014F", "U+0150", "U+0151", "U+0152", "U+0153", "U+0154",
     "U+0155", "U+0156", "U+0157", "U+0158", "U+0159", "U+015A", "U+015B", "U+015C", "U+015D",
     "U+015E", "U+015F", "U+0160", "U+0161", "U+0162", "U+0163", "U+0164", "U+0165", "U+0166",
     "U+0167", "U+0168", "U+0169", "U+016A", "U+016B", "U+016C", "U+016D", "U+016E", "U+016F",
     "U+0170", "U+0171", "U+0172", "U+0173", "U+0174", "U+0175", "U+0176", "U+0177", "U+0178",
     "U+0179", "U+017A", "U+017B", "U+017C", "U+017D", "U+017E", "U+017F", "ƀ", "Ɓ", "Ƃ", "ƃ",
     "Ƅ", "ƅ", "Ɔ", "Ƈ", "ƈ", "Ɖ", "Ɗ", "Ƌ", "ƌ", "ƍ", "Ǝ", "Ə", "Ɛ", "Ƒ", "ƒ", "Ɠ", "Ɣ", "ƕ",
     "Ɩ", "Ɨ", "Ƙ", "ƙ", "ƚ", "ƛ", "Ɯ", "Ɲ", "ƞ", "Ɵ", "Ơ", "ơ", "Ƣ", "ƣ", "Ƥ", "ƥ", "Ʀ", "Ƨ",
     "ƨ", "Ʃ", "ƪ", "ƫ", "Ƭ", "ƭ", "Ʈ", "Ư", "ư", "Ʊ", "Ʋ", "Ƴ", "ƴ", "Ƶ", "ƶ", "Ʒ", "Ƹ", "ƹ",
     "ƺ", "Ƽ", "ƽ", "ƾ", "ƿ", "Ǆ", "ǅ", "ǆ", "Ǉ", "ǈ", "ǉ", "Ǌ", "ǋ", "ǌ", "Ǎ", "ǎ", "Ǐ", "ǐ",
     "Ǒ", "ǒ", "Ǔ", "ǔ", "Ǖ", "ǖ", "Ǘ", "ǘ", "Ǚ", "ǚ", "Ǜ", "ǜ", "ǝ", "Ǟ", "ǟ", "Ǡ", "ǡ", "Ǣ",
     "ǣ", "Ǥ", "ǥ", "Ǧ", "ǧ", "Ǩ", "ǩ", "Ǫ", "ǫ", "Ǭ", "ǭ", "Ǯ", "ǯ", "ǰ", "Ǳ", "ǲ", "ǳ", "Ǵ",
     "ǵ", "Ƕ", "Ƿ", "Ǹ", "ǹ", "Ǻ", "ǻ", "Ǽ", "ǽ", "Ǿ", "ǿ", "U+0200", "U+0201", "U+0202",
     "U+0203", "U+0204", "U+0205", "U+0206", "U+0207", "U+0208", "U+0209", "U+020A", "U+020B",
     "U+020C", "U+020D", "U+020E", "U+020F", "U+0210", "U+0211", "U+0212", "U+0213", "U+0214",
     "U+0215", "U+0216", "U+0217", "U+0218", "U+0219", "U+021A", "U+021B", "U+021C", "U+021D",
     "U+021E", "U+021F", "U+0220", "U+0221", "U+0222", "U+0223", "U+0224", "U+0225", "U+0226",
     "U+0227", "U+0228", "U+0229", "U+022A", "U+022B", "U+022C", "U+022D", "U+022E", "U+022F",
     "U+0230", "U+0231", "U+0232", "U+0233", "U+0234", "U+0235", "U+0236", "U+0237", "U+0238",
     "U+0239", "U+023A", "U+023B", "U+023C", "U+023D", "U+023E", "U+023F", "U+0240", "U+0241",
     "U+0242", "U+0243", "U+0244", "U+0245", "U+0246", "U+0247", "U+0248", "U+0249", "U+024A",
     "U+024B", "U+024C", "U+024D", "U+024E", "U+024F", "U+0250", "U+0251", "U+0252", "U+0253",
     "U+0254", "U+0255", "U+0256", "U+0257", "U+0258", "U+0259", "U+025A", "U+025B", "U+025C",
     "U+025D", "U+025E", "U+025F", "U+0260", "U+0261", "U+0262", "U+0263", "U+0264", "U+0265",
     "U+0266", "U+0267", "U+0268", "U+0269", "U+026A", "U+026B", "U+026C", "U+026D", "U+026E",
     "U+026F", "U+0270", "U+0271", "U+0272", "U+0273", "U+0274", "U+0275", "U+0276", "U+0277",
     "U+0278", "U+0279", "U+027A", "U+027B", "U+027C", "U+027D", "U+027E", "U+027F", "ʀ", "ʁ",
     "ʂ", "ʃ", "ʄ", "ʅ", "ʆ", "ʇ", "ʈ", "ʉ", "ʊ", "ʋ", "ʌ", "ʍ", "ʎ", "ʏ", "ʐ", "ʑ", "ʒ", "ʓ",
     "ʕ", "ʖ", "ʗ", "ʘ", "ʙ", "ʚ", "ʛ", "ʜ", "ʝ", "ʞ", "ʟ", "ʠ", "ʡ", "ʢ", "ʣ", "ʤ", "ʥ", "ʦ",
     "ʧ", "ʨ", "ʩ", "ʪ", "ʫ", "ʬ", "ʭ", "ʮ", "ʯ", "U+0370", "U+0371", "U+0372", "U+0373",
     "U+0376", "U+0377", "U+037B", "U+037C", "U+037D", "U+037F", "Ά", "Έ", "Ή", "Ί", "Ό", "Ύ",
     "Ώ", "ΐ", "Α", "Β", "Γ", "Δ", "Ε", "Ζ", "Η", "Θ", "Ι", "Κ", "Λ", "Μ", "Ν", "Ξ", "Ο", "Π",
     "Ρ", "Σ", "Τ", "Υ", "Φ", "Χ", "Ψ", "Ω", "Ϊ", "Ϋ", "ά", "έ", "ή", "ί", "ΰ", "α", "β", "γ",
     "δ", "ε", "ζ", "η", "θ", "ι", "κ", "λ", "μ", "ν", "ξ", "ο", "π", "ρ", "ς", "σ", "τ", "υ",
     "φ", "χ", "ψ", "ω", "ϊ", "ϋ", "ό", "ύ", "ώ", "Ϗ", "ϐ", "ϑ", "ϒ", "ϓ", "ϔ", "ϕ", "ϖ", "ϗ",
     "Ϙ", "ϙ", "Ϛ", "ϛ", "Ϝ", "ϝ", "Ϟ", "ϟ", "Ϡ", "ϡ", "Ϣ", "ϣ", "Ϥ", "ϥ", "Ϧ", "ϧ", "Ϩ", "ϩ",
     "Ϫ", "ϫ", "Ϭ", "ϭ", "Ϯ", "ϯ", "ϰ", "ϱ", "ϲ", "ϳ", "ϴ", "ϵ", "Ϸ", "ϸ", "Ϲ", "Ϻ", "ϻ", "ϼ",
     "Ͻ", "Ͼ", "Ͽ", "U+0400", "U+0401", "U+0402", "U+0403", "U+0404", "U+0405", "U+0406",
     "U+0407", "U+0408", "U+0409", "U+040A", "U+040B", "U+040C", "U+040D", "U+040E", "U+040F",
     "U+0410", "U+0411", "U+0412", "U+0413", "U+0414", "U+0415", "U+0416", "U+0417", "U+0418",
     "U+0419", "U+041A", "U+041B", "U+041C", "U+041D", "U+041E", "U+041F", "U+0420", "U+0421",
     "U+0422", "U+0423", "U+0424", "U+0425", "U+0426", "U+0427", "U+0428", "U+0429", "U+042A",
     "U+042B", "U+042C", "U+042D", "U+042E", "U+042F", "U+0430", "U+0431", "U+0432", "U+0433",
     "U+0434", "U+0435", "U+0436", "U+0437", "U+0438", "U+0439", "U+043A", "U+043B", "U+043C",
     "U+043D", "U+043E", "U+043F", "U+0440", "U+0441", "U+0442", "U+0443", "U+0444", "U+0445",
     "U+0446", "U+0447", "U+0448", "U+0449", "U+044A", "U+044B", "U+044C", "U+044D", "U+044E",
     "U+044F", "U+0450", "U+0451", "U+0452", "U+0453", "U+0454", "U+0455", "U+0456", "U+0457",
     "U+0458", "U+0459", "U+045A", "U+045B", "U+045C", "U+045D", "U+045E", "U+045F", "U+0460",
     "U+0461", "U+0462", "U+0463", "U+0464", "U+0465", "U+0466", "U+0467", "U+0468", "U+0469",
     "U+046A", "U+046B", "U+046C", "U+046D", "U+046E", "U+046F", "U+0470", "U+0471", "U+0472",
     "U+0473", "U+0474", "U+0475", "U+0476", "U+0477", "U+0478", "U+0479", "U+047A", "U+047B",
     "U+047C", "U+047D", "U+047E", "U+047F", "Ҁ", "ҁ", "Ҋ", "ҋ", "Ҍ", "ҍ", "Ҏ", "ҏ", "Ґ", "ґ",
     "Ғ", "ғ", "Ҕ", "ҕ", "Җ", "җ", "Ҙ", "ҙ", "Қ", "қ", "Ҝ", "ҝ", "Ҟ", "ҟ", "Ҡ", "ҡ", "Ң", "ң",
     "Ҥ", "ҥ", "Ҧ", "ҧ", "Ҩ", "ҩ", "Ҫ", "ҫ", "Ҭ", "ҭ", "Ү", "ү", "Ұ", "ұ", "Ҳ", "ҳ", "Ҵ", "ҵ",
     "Ҷ", "ҷ", "Ҹ", "ҹ", "Һ", "һ", "Ҽ", "ҽ", "Ҿ", "ҿ", "Ӏ", "Ӂ", "ӂ", "Ӄ", "ӄ", "Ӆ", "ӆ", "Ӈ",
     "ӈ", "Ӊ", "ӊ", "Ӌ", "ӌ", "Ӎ", "ӎ", "ӏ", "Ӑ", "ӑ", "Ӓ", "ӓ", "Ӕ", "ӕ", "Ӗ", "ӗ", "Ә", "ә",
     "Ӛ", "ӛ", "Ӝ", "ӝ", "Ӟ", "ӟ", "Ӡ", "ӡ", "Ӣ", "ӣ", "Ӥ", "ӥ", "Ӧ", "ӧ", "Ө", "ө", "Ӫ", "ӫ",
     "Ӭ", "ӭ", "Ӯ", "ӯ", "Ӱ", "ӱ", "Ӳ", "ӳ", "Ӵ", "ӵ", "Ӷ", "ӷ", "Ӹ", "ӹ", "Ӻ", "ӻ", "Ӽ", "ӽ",
     "Ӿ", "ӿ", "U+0500", "U+0501", "U+0502", "U+0503", "U+0504", "U+0505", "U+0506", "U+0507",
     "U+0508", "U+0509", "U+050A", "U+050B", "U+050C", "U+050D", "U+050E", "U+050F", "U+0510",
     "U+0511", "U+0512", "U+0513", "U+0514", "U+0515", "U+0516", "U+0517", "U+0518", "U+0519",
     "U+051A", "U+051B", "U+051C", "U+051D", "U+051E", "U+051F", "U+0520", "U+0521", "U+0522",
     "U+0523", "U+0524", "U+0525", "U+0526", "U+0527", "U+0528", "U+0529", "U+052A", "U+052B",
     "U+052C", "U+052D", "U+052E", "U+052F", "U+0531", "U+0532", "U+0533", "U+0534", "U+0535",
     "U+0536", "U+0537", "U+0538", "U+0539", "U+053A", "U+053B", "U+053C", "U+053D", "U+053E",
     "U+053F", "U+0540", "U+0541", "U+0542", "U+0543", "U+0544", "U+0545", "U+0546", "U+0547",
     "U+0548", "U+0549", "U+054A", "U+054B", "U+054C", "U+054D", "U+054E", "U+054F", "U+0550",
     "U+0551", "U+0552", "U+0553", "U+0554", "U+0555", "U+0556", "U+0560", "U+0561", "U+0562",
     "U+0563", "U+0564", "U+0565", "U+0566", "U+0567", "U+0568", "U+0569", "U+056A", "U+056B",
     "U+056C", "U+056D", "U+056E", "U+056F", "U+0570", "U+0571", "U+0572", "U+0573", "U+0574",
     "U+0575", "U+0576", "U+0577", "U+0578", "U+0579", "U+057A", "U+057B", "U+057C", "U+057D",
     "U+057E", "U+057F", "ր", "ց", "ւ", "փ", "ք", "օ", "ֆ", "և", "ֈ", "Ⴀ", "Ⴁ", "Ⴂ", "Ⴃ", "Ⴄ",
     "Ⴅ", "Ⴆ", "Ⴇ", "Ⴈ", "Ⴉ", "Ⴊ", "Ⴋ", "Ⴌ", "Ⴍ", "Ⴎ", "Ⴏ", "Ⴐ", "Ⴑ", "Ⴒ", "Ⴓ", "Ⴔ", "Ⴕ", "Ⴖ",
     "Ⴗ", "Ⴘ", "Ⴙ", "Ⴚ", "Ⴛ", "Ⴜ", "Ⴝ", "Ⴞ", "Ⴟ", "Ⴠ", "Ⴡ", "Ⴢ", "Ⴣ", "Ⴤ", "Ⴥ", "Ⴧ", "Ⴭ", "ა",
     "ბ", "გ", "დ", "ე", "ვ", "ზ", "თ", "ი", "კ", "ლ", "მ", "ნ", "ო", "პ", "ჟ", "რ", "ს", "ტ",
     "უ", "ფ", "ქ", "ღ", "ყ", "შ", "ჩ", "ც", "ძ", "წ", "ჭ", "ხ", "ჯ", "ჰ", "ჱ", "ჲ", "ჳ", "ჴ",
     "ჵ", "ჶ", "ჷ", "ჸ", "ჹ", "ჺ", "ჽ", "ჾ", "ჿ", "Ꭰ", "Ꭱ", "Ꭲ", "Ꭳ", "Ꭴ", "Ꭵ", "Ꭶ", "Ꭷ", "Ꭸ",
     "Ꭹ", "Ꭺ", "Ꭻ", "Ꭼ", "Ꭽ", "Ꭾ", "Ꭿ", "Ꮀ", "Ꮁ", "Ꮂ", "Ꮃ", "Ꮄ", "Ꮅ", "Ꮆ", "Ꮇ", "Ꮈ", "Ꮉ", "Ꮊ",
     "Ꮋ", "Ꮌ", "Ꮍ", "Ꮎ", "Ꮏ", "Ꮐ", "Ꮑ", "Ꮒ", "Ꮓ", "Ꮔ", "Ꮕ", "Ꮖ", "Ꮗ", "Ꮘ", "Ꮙ", "Ꮚ", "Ꮛ", "Ꮜ",
     "Ꮝ", "Ꮞ", "Ꮟ", "Ꮠ", "Ꮡ", "Ꮢ", "Ꮣ", "Ꮤ", "Ꮥ", "Ꮦ", "Ꮧ", "Ꮨ", "Ꮩ", "Ꮪ", "Ꮫ", "Ꮬ", "Ꮭ", "Ꮮ",
     "Ꮯ", "Ꮰ", "Ꮱ", "Ꮲ", "Ꮳ", "Ꮴ", "Ꮵ", "Ꮶ", "Ꮷ", "Ꮸ", "Ꮹ", "Ꮺ", "Ꮻ", "Ꮼ", "Ꮽ", "Ꮾ", "Ꮿ", "Ᏸ",
     "Ᏹ", "Ᏺ", "Ᏻ", "Ᏼ", "Ᏽ", "ᏸ", "ᏹ", "ᏺ", "ᏻ", "ᏼ", "ᏽ", "ᲀ", "ᲁ", "ᲂ", "ᲃ", "ᲄ", "ᲅ", "ᲆ",
     "ᲇ", "ᲈ", "Ა", "Ბ", "Გ", "Დ", "Ე", "Ვ", "Ზ", "Თ", "Ი", "Კ", "Ლ", "Მ", "Ნ", "Ო", "Პ", "Ჟ",
     "Რ", "Ს", "Ტ", "Უ", "Ფ", "Ქ", "Ღ", "Ყ", "Შ", "Ჩ", "Ც", "Ძ", "Წ", "Ჭ", "Ხ", "Ჯ", "Ჰ", "Ჱ",
     "Ჲ", "Ჳ", "Ჴ", "Ჵ", "Ჶ", "Ჷ", "Ჸ", "Ჹ", "Ჺ", "Ჽ", "Ჾ", "Ჿ", "U+1D00", "U+1D01", "U+1D02",
     "U+1D03", "U+1D04", "U+1D05", "U+1D06", "U+1D07", "U+1D08", "U+1D09", "U+1D0A", "U+1D0B",
     "U+1D0C", "U+1D0D", "U+1D0E", "U+1D0F", "U+1D10", "U+1D11", "U+1D12", "U+1D13", "U+1D14",
     "U+1D15", "U+1D16", "U+1D17", "U+1D18", "U+1D19", "U+1D1A", "U+1D1B", "U+1D1C", "U+1D1D",
     "U+1D1E", "U+1D1F", "U+1D20", "U+1D21", "U+1D22", "U+1D23", "U+1D24", "U+1D25", "U+1D26",
     "U+1D27", "U+1D28", "U+1D29", "U+1D2A", "U+1D2B", "U+1D6B", "U+1D6C", "U+1D6D", "U+1D6E",
     "U+1D6F", "U+1D70", "U+1D71", "U+1D72", "U+1D73", "U+1D74", "U+1D75", "U+1D76", "U+1D77",
     "U+1D79", "U+1D7A", "U+1D7B", "U+1D7C", "U+1D7D", "U+1D7E", "U+1D7F", "ᶀ", "ᶁ", "ᶂ", "ᶃ",
     "ᶄ", "ᶅ", "ᶆ", "ᶇ", "ᶈ", "ᶉ", "ᶊ", "ᶋ", "ᶌ", "ᶍ", "ᶎ", "ᶏ", "ᶐ", "ᶑ", "ᶒ", "ᶓ", "ᶔ", "ᶕ",
     "ᶖ", "ᶗ", "ᶘ", "ᶙ", "ᶚ", "U+1E00", "U+1E01", "U+1E02", "U+1E03", "U+1E04", "U+1E05",
     "U+1E06", "U+1E07", "U+1E08", "U+1E09", "U+1E0A", "U+1E0B", "U+1E0C", "U+1E0D", "U+1E0E",
     "U+1E0F", "U+1E10", "U+1E11", "U+1E12", "U+1E13", "U+1E14", "U+1E15", "U+1E16", "U+1E17",
     "U+1E18", "U+1E19", "U+1E1A", "U+1E1B", "U+1E1C", "U+1E1D", "U+1E1E", "U+1E1F", "U+1E20",
     "U+1E21", "U+1E22", "U+1E23", "U+1E24", "U+1E25", "U+1E26", "U+1E27", "U+1E28", "U+1E29",
     "U+1E2A", "U+1E2B", "U+1E2C", "U+1E2D", "U+1E2E", "U+1E2F", "U+1E30", "U+1E31", "U+1E32",
     "U+1E33", "U+1E34", "U+1E35", "U+1E36", "U+1E37", "U+1E38", "U+1E39", "U+1E3A", "U+1E3B",
     "U+1E3C", "U+1E3D", "U+1E3E", "U+1E3F", "U+1E40", "U+1E41", "U+1E42", "U+1E43", "U+1E44",
     "U+1E45", "U+1E46", "U+1E47", "U+1E48", "U+1E49", "U+1E4A", "U+1E4B", "U+1E4C", "U+1E4D",
     "U+1E4E", "U+1E4F", "U+1E50", "U+1E51", "U+1E52", "U+1E53", "U+1E54", "U+1E55", "U+1E56",
     "U+1E57", "U+1E58", "U+1E59", "U+1E5A", "U+1E5B", "U+1E5C", "U+1E5D", "U+1E5E", "U+1E5F",
     "U+1E60", "U+1E61", "U+1E62", "U+1E63", "U+1E64", "U+1E65", "U+1E66", "U+1E67", "U+1E68",
     "U+1E69", "U+1E6A", "U+1E6B", "U+1E6C", "U+1E6D", "U+1E6E", "U+1E6F", "U+1E70", "U+1E71",
     "U+1E72", "U+1E73", "U+1E74", "U+1E75", "U+1E76", "U+1E77", "U+1E78", "U+1E79", "U+1E7A",
     "U+1E7B", "U+1E7C", "U+1E7D", "U+1E7E", "U+1E7F", "Ẁ", "ẁ", "Ẃ", "ẃ", "Ẅ", "ẅ", "Ẇ", "ẇ",
     "Ẉ", "ẉ", "Ẋ", "ẋ", "Ẍ", "ẍ", "Ẏ", "ẏ", "Ẑ", "ẑ", "Ẓ", "ẓ", "Ẕ", "ẕ", "ẖ", "ẗ", "ẘ", "ẙ",
     "ẚ", "ẛ", "ẜ", "ẝ", "ẞ", "ẟ", "Ạ", "ạ", "Ả", "ả", "Ấ", "ấ", "Ầ", "ầ", "Ẩ", "ẩ", "Ẫ", "ẫ",
     "Ậ", "ậ", "Ắ", "ắ", "Ằ", "ằ", "Ẳ", "ẳ", "Ẵ", "ẵ", "Ặ", "ặ", "Ẹ", "ẹ", "Ẻ", "ẻ", "Ẽ", "ẽ",
     "Ế", "ế", "Ề", "ề", "Ể", "ể", "Ễ", "ễ", "Ệ", "ệ", "Ỉ", "ỉ", "Ị", "ị", "Ọ", "ọ", "Ỏ", "ỏ",
     "Ố", "ố", "Ồ", "ồ", "Ổ", "ổ", "Ỗ", "ỗ", "Ộ", "ộ", "Ớ", "ớ", "Ờ", "ờ", "Ở", "ở", "Ỡ", "ỡ",
     "Ợ", "ợ", "Ụ", "ụ", "Ủ", "ủ", "Ứ", "ứ", "Ừ", "ừ", "Ử", "ử", "Ữ", "ữ", "Ự", "ự", "Ỳ", "ỳ",
     "Ỵ", "ỵ", "Ỷ", "ỷ", "Ỹ", "ỹ", "Ỻ", "ỻ", "Ỽ", "ỽ", "Ỿ", "ỿ", "U+1F00", "U+1F01", "U+1F02",
     "U+1F03", "U+1F04", "U+1F05", "U+1F06", "U+1F07", "U+1F08", "U+1F09", "U+1F0A", "U+1F0B",
     "U+1F0C", "U+1F0D", "U+1F0E", "U+1F0F", "U+1F10", "U+1F11", "U+1F12", "U+1F13", "U+1F14",
     "U+1F15", "U+1F18", "U+1F19", "U+1F1A", "U+1F1B", "U+1F1C", "U+1F1D", "U+1F20", "U+1F21",
     "U+1F22", "U+1F23", "U+1F24", "U+1F25", "U+1F26", "U+1F27", "U+1F28", "U+1F29", "U+1F2A",
     "U+1F2B", "U+1F2C", "U+1F2D", "U+1F2E", "U+1F2F", "U+1F30", "U+1F31", "U+1F32", "U+1F33",
     "U+1F34", "U+1F35", "U+1F36", "U+1F37", "U+1F38", "U+1F39", "U+1F3A", "U+1F3B", "U+1F3C",
     "U+1F3D", "U+1F3E", "U+1F3F", "U+1F40", "U+1F41", "U+1F42", "U+1F43", "U+1F44", "U+1F45",
     "U+1F48", "U+1F49", "U+1F4A", "U+1F4B", "U+1F4C", "U+1F4D", "U+1F50", "U+1F51", "U+1F52",
     "U+1F53", "U+1F54", "U+1F55", "U+1F56", "U+1F57", "U+1F59", "U+1F5B", "U+1F5D", "U+1F5F",
     "U+1F60", "U+1F61", "U+1F62", "U+1F63", "U+1F64", "U+1F65", "U+1F66", "U+1F67", "U+1F68",
     "U+1F69", "U+1F6A", "U+1F6B", "U+1F6C", "U+1F6D", "U+1F6E", "U+1F6F", "U+1F70", "U+1F71",
     "U+1F72", "U+1F73", "U+1F74", "U+1F75", "U+1F76", "U+1F77", "U+1F78", "U+1F79", "U+1F7A",
     "U+1F7B", "U+1F7C", "U+1F7D", "ᾀ", "ᾁ", "ᾂ", "ᾃ", "ᾄ", "ᾅ", "ᾆ", "ᾇ", "ᾈ", "ᾉ", "ᾊ", "ᾋ",
     "ᾌ", "ᾍ", "ᾎ", "ᾏ", "ᾐ", "ᾑ", "ᾒ", "ᾓ", "ᾔ", "ᾕ", "ᾖ", "ᾗ", "ᾘ", "ᾙ", "ᾚ", "ᾛ", "ᾜ", "ᾝ",
     "ᾞ", "ᾟ", "ᾠ", "ᾡ", "ᾢ", "ᾣ", "ᾤ", "ᾥ", "ᾦ", "ᾧ", "ᾨ", "ᾩ", "ᾪ", "ᾫ", "ᾬ", "ᾭ", "ᾮ", "ᾯ",
     "ᾰ", "ᾱ", "ᾲ", "ᾳ", "ᾴ", "ᾶ", "ᾷ", "Ᾰ", "Ᾱ", "Ὰ", "Ά", "ᾼ", "ι", "ῂ", "ῃ", "ῄ", "ῆ", "ῇ",
     "Ὲ", "Έ", "Ὴ", "Ή", "ῌ", "ῐ", "ῑ", "ῒ", "ΐ", "ῖ", "ῗ", "Ῐ", "Ῑ", "Ὶ", "Ί", "ῠ", "ῡ", "ῢ",
     "ΰ", "ῤ", "ῥ", "ῦ", "ῧ", "Ῠ", "Ῡ", "Ὺ", "Ύ", "Ῥ", "ῲ", "ῳ", "ῴ", "ῶ", "ῷ", "Ὸ", "Ό", "Ὼ",
     "Ώ", "ῼ", "U+2102", "U+2107", "U+210A", "U+210B", "U+210C", "U+210D", "U+210E", "U+210F",
     "U+2110", "U+2111", "U+2112", "U+2113", "U+2115", "U+2119", "U+211A", "U+211B", "U+211C",
     "U+211D", "U+2124", "U+2126", "U+2128", "U+212A", "U+212B", "U+212C", "U+212D", "U+212F",
     "U+2130", "U+2131", "U+2132", "U+2133", "U+2134", "U+2139", "U+213C", "U+213D", "U+213E",
     "U+213F", "U+2145", "U+2146", "U+2147", "U+2148", "U+2149", "U+214E", "U+2160", "U+2161",
     "U+2162", "U+2163", "U+2164", "U+2165", "U+2166", "U+2167", "U+2168", "U+2169", "U+216A",
     "U+216B", "U+216C", "U+216D", "U+216E", "U+216F", "U+2170", "U+2171", "U+2172", "U+2173",
     "U+2174", "U+2175", "U+2176", "U+2177", "U+2178", "U+2179", "U+217A", "U+217B", "U+217C",
     "U+217D", "U+217E", "U+217F", "Ↄ", "ↄ", "Ⓐ", "Ⓑ", "Ⓒ", "Ⓓ", "Ⓔ", "Ⓕ", "Ⓖ", "Ⓗ", "Ⓘ", "Ⓙ",
     "Ⓚ", "Ⓛ", "Ⓜ", "Ⓝ", "Ⓞ", "Ⓟ", "Ⓠ", "Ⓡ", "Ⓢ", "Ⓣ", "Ⓤ", "Ⓥ", "Ⓦ", "Ⓧ", "Ⓨ", "Ⓩ", "ⓐ", "ⓑ",
     "ⓒ", "ⓓ", "ⓔ", "ⓕ", "ⓖ", "ⓗ", "ⓘ", "ⓙ", "ⓚ", "ⓛ", "ⓜ", "ⓝ", "ⓞ", "ⓟ", "ⓠ", "ⓡ", "ⓢ", "ⓣ",
     "ⓤ", "ⓥ", "ⓦ", "ⓧ", "ⓨ", "ⓩ", "U+2C00", "U+2C01", "U+2C02", "U+2C03", "U+2C04", "U+2C05",
     "U+2C06", "U+2C07", "U+2C08", "U+2C09", "U+2C0A", "U+2C0B", "U+2C0C", "U+2C0D", "U+2C0E",
     "U+2C0F", "U+2C10", "U+2C11", "U+2C12", "U+2C13", "U+2C14", "U+2C15", "U+2C16", "U+2C17",
     "U+2C18", "U+2C19", "U+2C1A", "U+2C1B", "U+2C1C", "U+2C1D", "U+2C1E", "U+2C1F", "U+2C20",
     "U+2C21", "U+2C22", "U+2C23", "U+2C24", "U+2C25", "U+2C26", "U+2C27", "U+2C28", "U+2C29",
     "U+2C2A", "U+2C2B", "U+2C2C", "U+2C2D", "U+2C2E", "U+2C2F", "U+2C30", "U+2C31", "U+2C32",
     "U+2C33", "U+2C34", "U+2C35", "U+2C36", "U+2C37", "U+2C38", "U+2C39", "U+2C3A", "U+2C3B",
     "U+2C3C", "U+2C3D", "U+2C3E", "U+2C3F", "U+2C40", "U+2C41", "U+2C42", "U+2C43", "U+2C44",
     "U+2C45", "U+2C46", "U+2C47", "U+2C48", "U+2C49", "U+2C4A", "U+2C4B", "U+2C4C", "U+2C4D",
     "U+2C4E", "U+2C4F", "U+2C50", "U+2C51", "U+2C52", "U+2C53", "U+2C54", "U+2C55", "U+2C56",
     "U+2C57", "U+2C58", "U+2C59", "U+2C5A", "U+2C5B", "U+2C5C", "U+2C5D", "U+2C5E", "U+2C5F",
     "U+2C60", "U+2C61", "U+2C62", "U+2C63", "U+2C64", "U+2C65", "U+2C66", "U+2C67", "U+2C68",
     "U+2C69", "U+2C6A", "U+2C6B", "U+2C6C", "U+2C6D", "U+2C6E", "U+2C6F", "U+2C70", "U+2C71",
     "U+2C72", "U+2C73", "U+2C74", "U+2C75", "U+2C76", "U+2C77", "U+2C78", "U+2C79", "U+2C7A",
     "U+2C7B", "U+2C7E", "U+2C7F", "Ⲁ", "ⲁ", "Ⲃ", "ⲃ", "Ⲅ", "ⲅ", "Ⲇ", "ⲇ", "Ⲉ", "ⲉ", "Ⲋ", "ⲋ",
     "Ⲍ", "ⲍ", "Ⲏ", "ⲏ", "Ⲑ", "ⲑ", "Ⲓ", "ⲓ", "Ⲕ", "ⲕ", "Ⲗ", "ⲗ", "Ⲙ", "ⲙ", "Ⲛ", "ⲛ", "Ⲝ", "ⲝ",
     "Ⲟ", "ⲟ", "Ⲡ", "ⲡ", "Ⲣ", "ⲣ", "Ⲥ", "ⲥ", "Ⲧ", "ⲧ", "Ⲩ", "ⲩ", "Ⲫ", "ⲫ", "Ⲭ", "ⲭ", "Ⲯ", "ⲯ",
     "Ⲱ", "ⲱ", "Ⲳ", "ⲳ", "Ⲵ", "ⲵ", "Ⲷ", "ⲷ", "Ⲹ", "ⲹ", "Ⲻ", "ⲻ", "Ⲽ", "ⲽ", "Ⲿ", "ⲿ", "Ⳁ", "ⳁ",
     "Ⳃ", "ⳃ", "Ⳅ", "ⳅ", "Ⳇ", "ⳇ", "Ⳉ", "ⳉ", "Ⳋ", "ⳋ", "Ⳍ", "ⳍ", "Ⳏ", "ⳏ", "Ⳑ", "ⳑ", "Ⳓ", "ⳓ",
     "Ⳕ", "ⳕ", "Ⳗ", "ⳗ", "Ⳙ", "ⳙ", "Ⳛ", "ⳛ", "Ⳝ", "ⳝ", "Ⳟ", "ⳟ", "Ⳡ", "ⳡ", "Ⳣ", "ⳣ", "ⳤ", "Ⳬ",
     "ⳬ", "Ⳮ", "ⳮ", "Ⳳ", "ⳳ", "U+2D00", "U+2D01", "U+2D02", "U+2D03", "U+2D04", "U+2D05",
     "U+2D06", "U+2D07", "U+2D08", "U+2D09", "U+2D0A", "U+2D0B", "U+2D0C", "U+2D0D", "U+2D0E",
     "U+2D0F", "U+2D10", "U+2D11", "U+2D12", "U+2D13", "U+2D14", "U+2D15", "U+2D16", "U+2D17",
     "U+2D18", "U+2D19", "U+2D1A", "U+2D1B", "U+2D1C", "U+2D1D", "U+2D1E", "U+2D1F", "U+2D20",
     "U+2D21", "U+2D22", "U+2D23", "U+2D24", "U+2D25", "U+2D27", "U+2D2D", "U+A640", "U+A641",
     "U+A642", "U+A643", "U+A644", "U+A645", "U+A646", "U+A647", "U+A648", "U+A649", "U+A64A",
     "U+A64B", "U+A64C", "U+A64D", "U+A64E", "U+A64F", "U+A650", "U+A651", "U+A652", "U+A653",
     "U+A654", "U+A655", "U+A656", "U+A657", "U+A658", "U+A659", "U+A65A", "U+A65B", "U+A65C",
     "U+A65D", "U+A65E", "U+A65F", "U+A660", "U+A661", "U+A662", "U+A663", "U+A664", "U+A665",
     "U+A666", "U+A667", "U+A668", "U+A669", "U+A66A", "U+A66B", "U+A66C", "U+A66D", "Ꚁ", "ꚁ",
     "Ꚃ", "ꚃ", "Ꚅ", "ꚅ", "Ꚇ", "ꚇ", "Ꚉ", "ꚉ", "Ꚋ", "ꚋ", "Ꚍ", "ꚍ", "Ꚏ", "ꚏ", "Ꚑ", "ꚑ", "Ꚓ", "ꚓ",
     "Ꚕ", "ꚕ", "Ꚗ", "ꚗ", "Ꚙ", "ꚙ", "Ꚛ", "ꚛ", "U+A722", "U+A723", "U+A724", "U+A725", "U+A726",
     "U+A727", "U+A728", "U+A729", "U+A72A", "U+A72B", "U+A72C", "U+A72D", "U+A72E", "U+A72F",
     "U+A730", "U+A731", "U+A732", "U+A733", "U+A734", "U+A735", "U+A736", "U+A737", "U+A738",
     "U+A739", "U+A73A", "U+A73B", "U+A73C", "U+A73D", "U+A73E", "U+A73F", "U+A740", "U+A741",
     "U+A742", "U+A743", "U+A744", "U+A745", "U+A746", "U+A747", "U+A748", "U+A749", "U+A74A",
     "U+A74B", "U+A74C", "U+A74D", "U+A74E", "U+A74F", "U+A750", "U+A751", "U+A752", "U+A753",
     "U+A754", "U+A755", "U+A756", "U+A757", "U+A758", "U+A759", "U+A75A", "U+A75B", "U+A75C",
     "U+A75D", "U+A75E", "U+A75F", "U+A760", "U+A761", "U+A762", "U+A763", "U+A764", "U+A765",
     "U+A766", "U+A767", "U+A768", "U+A769", "U+A76A", "U+A76B", "U+A76C", "U+A76D", "U+A76E",
     "U+A76F", "U+A771", "U+A772", "U+A773", "U+A774", "U+A775", "U+A776", "U+A777", "U+A778",
     "U+A779", "U+A77A", "U+A77B", "U+A77C", "U+A77D", "U+A77E", "U+A77F", "Ꞁ", "ꞁ", "Ꞃ", "ꞃ",
     "Ꞅ", "ꞅ", "Ꞇ", "ꞇ", "Ꞌ", "ꞌ", "Ɥ", "ꞎ", "Ꞑ", "ꞑ", "Ꞓ", "ꞓ", "ꞔ", "ꞕ", "Ꞗ", "ꞗ", "Ꞙ", "ꞙ",
     "Ꞛ", "ꞛ", "Ꞝ", "ꞝ", "Ꞟ", "ꞟ", "Ꞡ", "ꞡ", "Ꞣ", "ꞣ", "Ꞥ", "ꞥ", "Ꞧ", "ꞧ", "Ꞩ", "ꞩ", "Ɦ", "Ɜ",
     "Ɡ", "Ɬ", "Ɪ", "ꞯ", "Ʞ", "Ʇ", "Ʝ", "Ꭓ", "Ꞵ", "ꞵ", "Ꞷ", "ꞷ", "Ꞹ", "ꞹ", "Ꞻ", "ꞻ", "Ꞽ", "ꞽ",
     "Ꞿ", "ꞿ", "Ꟁ", "ꟁ", "Ꟃ", "ꟃ", "Ꞔ", "Ʂ", "Ᶎ", "Ꟈ", "ꟈ", "Ꟊ", "ꟊ", "Ꟑ", "ꟑ", "ꟓ", "ꟕ", "Ꟗ",
     "ꟗ", "Ꟙ", "ꟙ", "Ꟶ", "ꟶ", "ꟺ", "U+AB30", "U+AB31", "U+AB32", "U+AB33", "U+AB34", "U+AB35",
     "U+AB36", "U+AB37", "U+AB38", "U+AB39", "U+AB3A", "U+AB3B", "U+AB3C", "U+AB3D", "U+AB3E",
     "U+AB3F", "U+AB40", "U+AB41", "U+AB42", "U+AB43", "U+AB44", "U+AB45", "U+AB46", "U+AB47",
     "U+AB48", "U+AB49", "U+AB4A", "U+AB4B", "U+AB4C", "U+AB4D", "U+AB4E", "U+AB4F", "U+AB50",
     "U+AB51", "U+AB52", "U+AB53", "U+AB54", "U+AB55", "U+AB56", "U+AB57", "U+AB58", "U+AB59",
     "U+AB5A", "U+AB60", "U+AB61", "U+AB62", "U+AB63", "U+AB64", "U+AB65", "U+AB66", "U+AB67",
     "U+AB68", "U+AB70", "U+AB71", "U+AB72", "U+AB73", "U+AB74", "U+AB75", "U+AB76", "U+AB77",
     "U+AB78", "U+AB79", "U+AB7A", "U+AB7B", "U+AB7C", "U+AB7D", "U+AB7E", "U+AB7F", "ꮀ", "ꮁ",
     "ꮂ", "ꮃ", "ꮄ", "ꮅ", "ꮆ", "ꮇ", "ꮈ", "ꮉ", "ꮊ", "ꮋ", "ꮌ", "ꮍ", "ꮎ", "ꮏ", "ꮐ", "ꮑ", "ꮒ", "ꮓ",
     "ꮔ", "ꮕ", "ꮖ", "ꮗ", "ꮘ", "ꮙ", "ꮚ", "ꮛ", "ꮜ", "ꮝ", "ꮞ", "ꮟ", "ꮠ", "ꮡ", "ꮢ", "ꮣ", "ꮤ", "ꮥ",
     "ꮦ", "ꮧ", "ꮨ", "ꮩ", "ꮪ", "ꮫ", "ꮬ", "ꮭ", "ꮮ", "ꮯ", "ꮰ", "ꮱ", "ꮲ", "ꮳ", "ꮴ", "ꮵ", "ꮶ", "ꮷ",
     "ꮸ", "ꮹ", "ꮺ", "ꮻ", "ꮼ", "ꮽ", "ꮾ", "ꮿ", "U+FB00", "U+FB01", "U+FB02", "U+FB03", "U+FB04",
     "U+FB05", "U+FB06", "U+FB13", "U+FB14", "U+FB15", "U+FB16", "U+FB17", "U+FF21", "U+FF22",
     "U+FF23", "U+FF24", "U+FF25", "U+FF26", "U+FF27", "U+FF28", "U+FF29", "U+FF2A", "U+FF2B",
     "U+FF2C", "U+FF2D", "U+FF2E", "U+FF2F", "U+FF30", "U+FF31", "U+FF32", "U+FF33", "U+FF34",
     "U+FF35", "U+FF36", "U+FF37", "U+FF38", "U+FF39", "U+FF3A", "U+FF41", "U+FF42", "U+FF43",
     "U+FF44", "U+FF45", "U+FF46", "U+FF47", "U+FF48", "U+FF49", "U+FF4A", "U+FF4B", "U+FF4C",
     "U+FF4D", "U+FF4E", "U+FF4F", "U+FF50", "U+FF51", "U+FF52", "U+FF53", "U+FF54", "U+FF55",
     "U+FF56", "U+FF57", "U+FF58", "U+FF59", "U+FF5A", "U+10400", "U+10401", "U+10402",
     "U+10403", "U+10404", "U+10405", "U+10406", "U+10407", "U+10408", "U+10409", "U+1040A",
     "U+1040B", "U+1040C", "U+1040D", "U+1040E", "U+1040F", "U+10410", "U+10411", "U+10412",
     "U+10413", "U+10414", "U+10415", "U+10416", "U+10417", "U+10418", "U+10419", "U+1041A",
     "U+1041B", "U+1041C", "U+1041D", "U+1041E", "U+1041F", "U+10420", "U+10421", "U+10422",
     "U+10423", "U+10424", "U+10425", "U+10426", "U+10427", "U+10428", "U+10429", "U+1042A",
     "U+1042B", "U+1042C", "U+1042D", "U+1042E", "U+1042F", "U+10430", "U+10431", "U+10432",
     "U+10433", "U+10434", "U+10435", "U+10436", "U+10437", "U+10438", "U+10439", "U+1043A",
     "U+1043B", "U+1043C", "U+1043D", "U+1043E", "U+1043F", "U+10440", "U+10441", "U+10442",
     "U+10443", "U+10444", "U+10445", "U+10446", "U+10447", "U+10448", "U+10449", "U+1044A",
     "U+1044B", "U+1044C", "U+1044D", "U+1044E", "U+1044F", "U+104B0", "U+104B1", "U+104B2",
     "U+104B3", "U+104B4", "U+104B5", "U+104B6", "U+104B7", "U+104B8", "U+104B9", "U+104BA",
     "U+104BB", "U+104BC", "U+104BD", "U+104BE", "U+104BF", "U+104C0", "U+104C1", "U+104C2",
     "U+104C3", "U+104C4", "U+104C5", "U+104C6", "U+104C7", "U+104C8", "U+104C9", "U+104CA",
     "U+104CB", "U+104CC", "U+104CD", "U+104CE", "U+104CF", "U+104D0", "U+104D1", "U+104D2",
     "U+104D3", "U+104D8", "U+104D9", "U+104DA", "U+104DB", "U+104DC", "U+104DD", "U+104DE",
     "U+104DF", "U+104E0", "U+104E1", "U+104E2", "U+104E3", "U+104E4", "U+104E5", "U+104E6",
     "U+104E7", "U+104E8", "U+104E9", "U+104EA", "U+104EB", "U+104EC", "U+104ED", "U+104EE",
     "U+104EF", "U+104F0", "U+104F1", "U+104F2", "U+104F3", "U+104F4", "U+104F5", "U+104F6",
     "U+104F7", "U+104F8", "U+104F9", "U+104FA", "U+104FB", "U+10570", "U+10571", "U+10572",
     "U+10573", "U+10574", "U+10575", "U+10576", "U+10577", "U+10578", "U+10579", "U+1057A",
     "U+1057C", "U+1057D", "U+1057E", "U+1057F", "U+10580", "U+10581", "U+10582", "U+10583",
     "U+10584", "U+10585", "U+10586", "U+10587", "U+10588", "U+10589", "U+1058A", "U+1058C",
     "U+1058D", "U+1058E", "U+1058F", "U+10590", "U+10591", "U+10592", "U+10594", "U+10595",
     "U+10597", "U+10598", "U+10599", "U+1059A", "U+1059B", "U+1059C", "U+1059D", "U+1059E",
     "U+1059F", "U+105A0", "U+105A1", "U+105A3", "U+105A4", "U+105A5", "U+105A6", "U+105A7",
     "U+105A8", "U+105A9", "U+105AA", "U+105AB", "U+105AC", "U+105AD", "U+105AE", "U+105AF",
     "U+105B0", "U+105B1", "U+105B3", "U+105B4", "U+105B5", "U+105B6", "U+105B7", "U+105B8",
     "U+105B9", "U+105BB", "U+105BC", "U+10C80", "U+10C81", "U+10C82", "U+10C83", "U+10C84",
     "U+10C85", "U+10C86", "U+10C87", "U+10C88", "U+10C89", "U+10C8A", "U+10C8B", "U+10C8C",
     "U+10C8D", "U+10C8E", "U+10C8F", "U+10C90", "U+10C91", "U+10C92", "U+10C93", "U+10C94",
     "U+10C95", "U+10C96", "U+10C97", "U+10C98", "U+10C99", "U+10C9A", "U+10C9B", "U+10C9C",
     "U+10C9D", "U+10C9E", "U+10C9F", "U+10CA0", "U+10CA1", "U+10CA2", "U+10CA3", "U+10CA4",
     "U+10CA5", "U+10CA6", "U+10CA7", "U+10CA8", "U+10CA9", "U+10CAA", "U+10CAB", "U+10CAC",
     "U+10CAD", "U+10CAE", "U+10CAF", "U+10CB0", "U+10CB1", "U+10CB2", "U+10CC0", "U+10CC1",
     "U+10CC2", "U+10CC3", "U+10CC4", "U+10CC5", "U+10CC6", "U+10CC7", "U+10CC8", "U+10CC9",
     "U+10CCA", "U+10CCB", "U+10CCC", "U+10CCD", "U+10CCE", "U+10CCF", "U+10CD0", "U+10CD1",
     "U+10CD2", "U+10CD3", "U+10CD4", "U+10CD5", "U+10CD6", "U+10CD7", "U+10CD8", "U+10CD9",
     "U+10CDA", "U+10CDB", "U+10CDC", "U+10CDD", "U+10CDE", "U+10CDF", "U+10CE0", "U+10CE1",
     "U+10CE2", "U+10CE3", "U+10CE4", "U+10CE5", "U+10CE6", "U+10CE7", "U+10CE8", "U+10CE9",
     "U+10CEA", "U+10CEB", "U+10CEC", "U+10CED", "U+10CEE", "U+10CEF", "U+10CF0", "U+10CF1",
     "U+10CF2", "U+118A0", "U+118A1", "U+118A2", "U+118A3", "U+118A4", "U+118A5", "U+118A6",
     "U+118A7", "U+118A8", "U+118A9", "U+118AA", "U+118AB", "U+118AC", "U+118AD", "U+118AE",
     "U+118AF", "U+118B0", "U+118B1", "U+118B2", "U+118B3", "U+118B4", "U+118B5", "U+118B6",
     "U+118B7", "U+118B8", "U+118B9", "U+118BA", "U+118BB", "U+118BC", "U+118BD", "U+118BE",
     "U+118BF", "U+118C0", "U+118C1", "U+118C2", "U+118C3", "U+118C4", "U+118C5", "U+118C6",
     "U+118C7", "U+118C8", "U+118C9", "U+118CA", "U+118CB", "U+118CC", "U+118CD", "U+118CE",
     "U+118CF", "U+118D0", "U+118D1", "U+118D2", "U+118D3", "U+118D4", "U+118D5", "U+118D6",
     "U+118D7", "U+118D8", "U+118D9", "U+118DA", "U+118DB", "U+118DC", "U+118DD", "U+118DE",
     "U+118DF", "U+16E40", "U+16E41", "U+16E42", "U+16E43", "U+16E44", "U+16E45", "U+16E46",
     "U+16E47", "U+16E48", "U+16E49", "U+16E4A", "U+16E4B", "U+16E4C", "U+16E4D", "U+16E4E",
     "U+16E4F", "U+16E50", "U+16E51", "U+16E52", "U+16E53", "U+16E54", "U+16E55", "U+16E56",
     "U+16E57", "U+16E58", "U+16E59", "U+16E5A", "U+16E5B", "U+16E5C", "U+16E5D", "U+16E5E",
     "U+16E5F", "U+16E60", "U+16E61", "U+16E62", "U+16E63", "U+16E64", "U+16E65", "U+16E66",
     "U+16E67", "U+16E68", "U+16E69", "U+16E6A", "U+16E6B", "U+16E6C", "U+16E6D", "U+16E6E",
     "U+16E6F", "U+16E70", "U+16E71", "U+16E72", "U+16E73", "U+16E74", "U+16E75", "U+16E76",
     "U+16E77", "U+16E78", "U+16E79", "U+16E7A", "U+16E7B", "U+16E7C", "U+16E7D", "U+16E7E",
     "U+16E7F", "U+1D400", "U+1D401", "U+1D402", "U+1D403", "U+1D404", "U+1D405", "U+1D406",
     "U+1D407", "U+1D408", "U+1D409", "U+1D40A", "U+1D40B", "U+1D40C", "U+1D40D", "U+1D40E",
     "U+1D40F", "U+1D410", "U+1D411", "U+1D412", "U+1D413", "U+1D414", "U+1D415", "U+1D416",
     "U+1D417", "U+1D418", "U+1D419", "U+1D41A", "U+1D41B", "U+1D41C", "U+1D41D", "U+1D41E",
     "U+1D41F", "U+1D420", "U+1D421", "U+1D422", "U+1D423", "U+1D424", "U+1D425", "U+1D426",
     "U+1D427", "U+1D428", "U+1D429", "U+1D42A", "U+1D42B", "U+1D42C", "U+1D42D", "U+1D42E",
     "U+1D42F", "U+1D430", "U+1D431", "U+1D432", "U+1D433", "U+1D434", "U+1D435", "U+1D436",
     "U+1D437", "U+1D438", "U+1D439", "U+1D43A", "U+1D43B", "U+1D43C", "U+1D43D", "U+1D43E",
     "U+1D43F", "U+1D440", "U+1D441", "U+1D442", "U+1D443", "U+1D444", "U+1D445", "U+1D446",
     "U+1D447", "U+1D448", "U+1D449", "U+1D44A", "U+1D44B", "U+1D44C", "U+1D44D", "U+1D44E",
     "U+1D44F", "U+1D450", "U+1D451", "U+1D452", "U+1D453", "U+1D454", "U+1D456", "U+1D457",
     "U+1D458", "U+1D459", "U+1D45A", "U+1D45B", "U+1D45C", "U+1D45D", "U+1D45E", "U+1D45F",
     "U+1D460", "U+1D461", "U+1D462", "U+1D463", "U+1D464", "U+1D465", "U+1D466", "U+1D467",
     "U+1D468", "U+1D469", "U+1D46A", "U+1D46B", "U+1D46C", "U+1D46D", "U+1D46E", "U+1D46F",
     "U+1D470", "U+1D471", "U+1D472", "U+1D473", "U+1D474", "U+1D475", "U+1D476", "U+1D477",
     "U+1D478", "U+1D479", "U+1D47A", "U+1D47B", "U+1D47C", "U+1D47D", "U+1D47E", "U+1D47F",
     "U+1D480", "U+1D481", "U+1D482", "U+1D483", "U+1D484", "U+1D485", "U+1D486", "U+1D487",
     "U+1D488", "U+1D489", "U+1D48A", "U+1D48B", "U+1D48C", "U+1D48D", "U+1D48E", "U+1D48F",
     "U+1D490", "U+1D491", "U+1D492", "U+1D493", "U+1D494", "U+1D495", "U+1D496", "U+1D497",
     "U+1D498", "U+1D499", "U+1D49A", "U+1D49B", "U+1D49C", "U+1D49E", "U+1D49F", "U+1D4A2",
     "U+1D4A5", "U+1D4A6", "U+1D4A9", "U+1D4AA", "U+1D4AB", "U+1D4AC", "U+1D4AE", "U+1D4AF",
     "U+1D4B0", "U+1D4B1", "U+1D4B2", "U+1D4B3", "U+1D4B4", "U+1D4B5", "U+1D4B6", "U+1D4B7",
     "U+1D4B8", "U+1D4B9", "U+1D4BB", "U+1D4BD", "U+1D4BE", "U+1D4BF", "U+1D4C0", "U+1D4C1",
     "U+1D4C2", "U+1D4C3", "U+1D4C5", "U+1D4C6", "U+1D4C7", "U+1D4C8", "U+1D4C9", "U+1D4CA",
     "U+1D4CB", "U+1D4CC", "U+1D4CD", "U+1D4CE", "U+1D4CF", "U+1D4D0", "U+1D4D1", "U+1D4D2",
     "U+1D4D3", "U+1D4D4", "U+1D4D5", "U+1D4D6", "U+1D4D7", "U+1D4D8", "U+1D4D9", "U+1D4DA",
     "U+1D4DB", "U+1D4DC", "U+1D4DD", "U+1D4DE", "U+1D4DF", "U+1D4E0", "U+1D4E1", "U+1D4E2",
     "U+1D4E3", "U+1D4E4", "U+1D4E5", "U+1D4E6", "U+1D4E7", "U+1D4E8", "U+1D4E9", "U+1D4EA",
     "U+1D4EB", "U+1D4EC", "U+1D4ED", "U+1D4EE", "U+1D4EF", "U+1D4F0", "U+1D4F1", "U+1D4F2",
     "U+1D4F3", "U+1D4F4", "U+1D4F5", "U+1D4F6", "U+1D4F7", "U+1D4F8", "U+1D4F9", "U+1D4FA",
     "U+1D4FB", "U+1D4FC", "U+1D4FD", "U+1D4FE", "U+1D4FF", "U+1D500", "U+1D501", "U+1D502",
     "U+1D503", "U+1D504", "U+1D505", "U+1D507", "U+1D508", "U+1D509", "U+1D50A", "U+1D50D",
     "U+1D50E", "U+1D50F", "U+1D510", "U+1D511", "U+1D512", "U+1D513", "U+1D514", "U+1D516",
     "U+1D517", "U+1D518", "U+1D519", "U+1D51A", "U+1D51B", "U+1D51C", "U+1D51E", "U+1D51F",
     "U+1D520", "U+1D521", "U+1D522", "U+1D523", "U+1D524", "U+1D525", "U+1D526", "U+1D527",
     "U+1D528", "U+1D529", "U+1D52A", "U+1D52B", "U+1D52C", "U+1D52D", "U+1D52E", "U+1D52F",
     "U+1D530", "U+1D531", "U+1D532", "U+1D533", "U+1D534", "U+1D535", "U+1D536", "U+1D537",
     "U+1D538", "U+1D539", "U+1D53B", "U+1D53C", "U+1D53D", "U+1D53E", "U+1D540", "U+1D541",
     "U+1D542", "U+1D543", "U+1D544", "U+1D546", "U+1D54A", "U+1D54B", "U+1D54C", "U+1D54D",
     "U+1D54E", "U+1D54F", "U+1D550", "U+1D552", "U+1D553", "U+1D554", "U+1D555", "U+1D556",
     "U+1D557", "U+1D558", "U+1D559", "U+1D55A", "U+1D55B", "U+1D55C", "U+1D55D", "U+1D55E",
     "U+1D55F", "U+1D560", "U+1D561", "U+1D562", "U+1D563", "U+1D564", "U+1D565", "U+1D566",
     "U+1D567", "U+1D568", "U+1D569", "U+1D56A", "U+1D56B", "U+1D56C", "U+1D56D", "U+1D56E",
     "U+1D56F", "U+1D570", "U+1D571", "U+1D572", "U+1D573", "U+1D574", "U+1D575", "U+1D576",
     "U+1D577", "U+1D578", "U+1D579", "U+1D57A", "U+1D57B", "U+1D57C", "U+1D57D", "U+1D57E",
     "U+1D57F", "U+1D580", "U+1D581", "U+1D582", "U+1D583", "U+1D584", "U+1D585", "U+1D586",
     "U+1D587", "U+1D588", "U+1D589", "U+1D58A", "U+1D58B", "U+1D58C", "U+1D58D", "U+1D58E",
     "U+1D58F", "U+1D590", "U+1D591", "U+1D592", "U+1D593", "U+1D594", "U+1D595", "U+1D596",
     "U+1D597", "U+1D598", "U+1D599", "U+1D59A", "U+1D59B", "U+1D59C", "U+1D59D", "U+1D59E",
     "U+1D59F", "U+1D5A0", "U+1D5A1", "U+1D5A2", "U+1D5A3", "U+1D5A4", "U+1D5A5", "U+1D5A6",
     "U+1D5A7", "U+1D5A8", "U+1D5A9", "U+1D5AA", "U+1D5AB", "U+1D5AC", "U+1D5AD", "U+1D5AE",
     "U+1D5AF", "U+1D5B0", "U+1D5B1", "U+1D5B2", "U+1D5B3", "U+1D5B4", "U+1D5B5", "U+1D5B6",
     "U+1D5B7", "U+1D5B8", "U+1D5B9", "U+1D5BA", "U+1D5BB", "U+1D5BC", "U+1D5BD", "U+1D5BE",
     "U+1D5BF", "U+1D5C0", "U+1D5C1", "U+1D5C2", "U+1D5C3", "U+1D5C4", "U+1D5C5", "U+1D5C6",
     "U+1D5C7", "U+1D5C8", "U+1D5C9", "U+1D5CA", "U+1D5CB", "U+1D5CC", "U+1D5CD", "U+1D5CE",
     "U+1D5CF", "U+1D5D0", "U+1D5D1", "U+1D5D2", "U+1D5D3", "U+1D5D4", "U+1D5D5", "U+1D5D6",
     "U+1D5D7", "U+1D5D8", "U+1D5D9", "U+1D5DA", "U+1D5DB", "U+1D5DC", "U+1D5DD", "U+1D5DE",
     "U+1D5DF", "U+1D5E0", "U+1D5E1", "U+1D5E2", "U+1D5E3", "U+1D5E4", "U+1D5E5", "U+1D5E6",
     "U+1D5E7", "U+1D5E8", "U+1D5E9", "U+1D5EA", "U+1D5EB", "U+1D5EC", "U+1D5ED", "U+1D5EE",
     "U+1D5EF", "U+1D5F0", "U+1D5F1", "U+1D5F2", "U+1D5F3", "U+1D5F4", "U+1D5F5", "U+1D5F6",
     "U+1D5F7", "U+1D5F8", "U+1D5F9", "U+1D5FA", "U+1D5FB", "U+1D5FC", "U+1D5FD", "U+1D5FE",
     "U+1D5FF", "U+1D600", "U+1D601", "U+1D602", "U+1D603", "U+1D604", "U+1D605", "U+1D606",
     "U+1D607", "U+1D608", "U+1D609", "U+1D60A", "U+1D60B", "U+1D60C", "U+1D60D", "U+1D60E",
     "U+1D60F", "U+1D610", "U+1D611", "U+1D612", "U+1D613", "U+1D614", "U+1D615", "U+1D616",
     "U+1D617", "U+1D618", "U+1D619", "U+1D61A", "U+1D61B", "U+1D61C", "U+1D61D", "U+1D61E",
     "U+1D61F", "U+1D620", "U+1D621", "U+1D622", "U+1D623", "U+1D624", "U+1D625", "U+1D626",
     "U+1D627", "U+1D628", "U+1D629", "U+1D62A", "U+1D62B", "U+1D62C", "U+1D62D", "U+1D62E",
     "U+1D62F", "U+1D630", "U+1D631", "U+1D632", "U+1D633", "U+1D634", "U+1D635", "U+1D636",
     "U+1D637", "U+1D638", "U+1D639", "U+1D63A", "U+1D63B", "U+1D63C", "U+1D63D", "U+1D63E",
     "U+1D63F", "U+1D640", "U+1D641", "U+1D642", "U+1D643", "U+1D644", "U+1D645", "U+1D646",
     "U+1D647", "U+1D648", "U+1D649", "U+1D64A", "U+1D64B", "U+1D64C", "U+1D64D", "U+1D64E",
     "U+1D64F", "U+1D650", "U+1D651", "U+1D652", "U+1D653", "U+1D654", "U+1D655", "U+1D656",
     "U+1D657", "U+1D658", "U+1D659", "U+1D65A", "U+1D65B", "U+1D65C", "U+1D65D", "U+1D65E",
     "U+1D65F", "U+1D660", "U+1D661", "U+1D662", "U+1D663", "U+1D664", "U+1D665", "U+1D666",
     "U+1D667", "U+1D668", "U+1D669", "U+1D66A", "U+1D66B", "U+1D66C", "U+1D66D", "U+1D66E",
     "U+1D66F", "U+1D670", "U+1D671", "U+1D672", "U+1D673", "U+1D674", "U+1D675", "U+1D676",
     "U+1D677", "U+1D678", "U+1D679", "U+1D67A", "U+1D67B", "U+1D67C", "U+1D67D", "U+1D67E",
     "U+1D67F", "U+1D680", "U+1D681", "U+1D682", "U+1D683", "U+1D684", "U+1D685", "U+1D686",
     "U+1D687", "U+1D688", "U+1D689", "U+1D68A", "U+1D68B", "U+1D68C", "U+1D68D", "U+1D68E",
     "U+1D68F", "U+1D690", "U+1D691", "U+1D692", "U+1D693", "U+1D694", "U+1D695", "U+1D696",
     "U+1D697", "U+1D698", "U+1D699", "U+1D69A", "U+1D69B", "U+1D69C", "U+1D69D", "U+1D69E",
     "U+1D69F", "U+1D6A0", "U+1D6A1", "U+1D6A2", "U+1D6A3", "U+1D6A4", "U+1D6A5", "U+1D6A8",
     "U+1D6A9", "U+1D6AA", "U+1D6AB", "U+1D6AC", "U+1D6AD", "U+1D6AE", "U+1D6AF", "U+1D6B0",
     "U+1D6B1", "U+1D6B2", "U+1D6B3", "U+1D6B4", "U+1D6B5", "U+1D6B6", "U+1D6B7", "U+1D6B8",
     "U+1D6B9", "U+1D6BA", "U+1D6BB", "U+1D6BC", "U+1D6BD", "U+1D6BE", "U+1D6BF", "U+1D6C0",
     "U+1D6C2", "U+1D6C3", "U+1D6C4", "U+1D6C5", "U+1D6C6", "U+1D6C7", "U+1D6C8", "U+1D6C9",
     "U+1D6CA", "U+1D6CB", "U+1D6CC", "U+1D6CD", "U+1D6CE", "U+1D6CF", "U+1D6D0", "U+1D6D1",
     "U+1D6D2", "U+1D6D3", "U+1D6D4", "U+1D6D5", "U+1D6D6", "U+1D6D7", "U+1D6D8", "U+1D6D9",
     "U+1D6DA", "U+1D6DC", "U+1D6DD", "U+1D6DE", "U+1D6DF", "U+1D6E0", "U+1D6E1", "U+1D6E2",
     "U+1D6E3", "U+1D6E4", "U+1D6E5", "U+1D6E6", "U+1D6E7", "U+1D6E8", "U+1D6E9", "U+1D6EA",
     "U+1D6EB", "U+1D6EC", "U+1D6ED", "U+1D6EE", "U+1D6EF", "U+1D6F0", "U+1D6F1", "U+1D6F2",
     "U+1D6F3", "U+1D6F4", "U+1D6F5", "U+1D6F6", "U+1D6F7", "U+1D6F8", "U+1D6F9", "U+1D6FA",
     "U+1D6FC", "U+1D6FD", "U+1D6FE", "U+1D6FF", "U+1D700", "U+1D701", "U+1D702", "U+1D703",
     "U+1D704", "U+1D705", "U+1D706", "U+1D707", "U+1D708", "U+1D709", "U+1D70A", "U+1D70B",
     "U+1D70C", "U+1D70D", "U+1D70E", "U+1D70F", "U+1D710", "U+1D711", "U+1D712", "U+1D713",
     "U+1D714", "U+1D716", "U+1D717", "U+1D718", "U+1D719", "U+1D71A", "U+1D71B", "U+1D71C",
     "U+1D71D", "U+1D71E", "U+1D71F", "U+1D720", "U+1D721", "U+1D722", "U+1D723", "U+1D724",
     "U+1D725", "U+1D726", "U+1D727", "U+1D728", "U+1D729", "U+1D72A", "U+1D72B", "U+1D72C",
     "U+1D72D", "U+1D72E", "U+1D72F", "U+1D730", "U+1D731", "U+1D732", "U+1D733", "U+1D734",
     "U+1D736", "U+1D737", "U+1D738", "U+1D739", "U+1D73A", "U+1D73B", "U+1D73C", "U+1D73D",
     "U+1D73E", "U+1D73F", "U+1D740", "U+1D741", "U+1D742", "U+1D743", "U+1D744", "U+1D745",
     "U+1D746", "U+1D747", "U+1D748", "U+1D749", "U+1D74A", "U+1D74B", "U+1D74C", "U+1D74D",
     "U+1D74E", "U+1D750", "U+1D751", "U+1D752", "U+1D753", "U+1D754", "U+1D755", "U+1D756",
     "U+1D757", "U+1D758", "U+1D759", "U+1D75A", "U+1D75B", "U+1D75C", "U+1D75D", "U+1D75E",
     "U+1D75F", "U+1D760", "U+1D761", "U+1D762", "U+1D763", "U+1D764", "U+1D765", "U+1D766",
     "U+1D767", "U+1D768", "U+1D769", "U+1D76A", "U+1D76B", "U+1D76C", "U+1D76D", "U+1D76E",
     "U+1D770", "U+1D771", "U+1D772", "U+1D773", "U+1D774", "U+1D775", "U+1D776", "U+1D777",
     "U+1D778", "U+1D779", "U+1D77A", "U+1D77B", "U+1D77C", "U+1D77D", "U+1D77E", "U+1D77F",
     "U+1D780", "U+1D781", "U+1D782", "U+1D783", "U+1D784", "U+1D785", "U+1D786", "U+1D787",
     "U+1D788", "U+1D78A", "U+1D78B", "U+1D78C", "U+1D78D", "U+1D78E", "U+1D78F", "U+1D790",
     "U+1D791", "U+1D792", "U+1D793", "U+1D794", "U+1D795", "U+1D796", "U+1D797", "U+1D798",
     "U+1D799", "U+1D79A", "U+1D79B", "U+1D79C", "U+1D79D", "U+1D79E", "U+1D79F", "U+1D7A0",
     "U+1D7A1", "U+1D7A2", "U+1D7A3", "U+1D7A4", "U+1D7A5", "U+1D7A6", "U+1D7A7", "U+1D7A8",
     "U+1D7AA", "U+1D7AB", "U+1D7AC", "U+1D7AD", "U+1D7AE", "U+1D7AF", "U+1D7B0", "U+1D7B1",
     "U+1D7B2", "U+1D7B3", "U+1D7B4", "U+1D7B5", "U+1D7B6", "U+1D7B7", "U+1D7B8", "U+1D7B9",
     "U+1D7BA", "U+1D7BB", "U+1D7BC", "U+1D7BD", "U+1D7BE", "U+1D7BF", "U+1D7C0", "U+1D7C1",
     "U+1D7C2", "U+1D7C4", "U+1D7C5", "U+1D7C6", "U+1D7C7", "U+1D7C8", "U+1D7C9", "U+1D7CA",
     "U+1D7CB", "U+1DF00", "U+1DF01", "U+1DF02", "U+1DF03", "U+1DF04", "U+1DF05", "U+1DF06",
     "U+1DF07", "U+1DF08", "U+1DF09", "U+1DF0B", "U+1DF0C", "U+1DF0D", "U+1DF0E", "U+1DF0F",
     "U+1DF10", "U+1DF11", "U+1DF12", "U+1DF13", "U+1DF14", "U+1DF15", "U+1DF16", "U+1DF17",
     "U+1DF18", "U+1DF19", "U+1DF1A", "U+1DF1B", "U+1DF1C", "U+1DF1D", "U+1DF1E", "U+1E900",
     "U+1E901", "U+1E902", "U+1E903", "U+1E904", "U+1E905", "U+1E906", "U+1E907", "U+1E908",
     "U+1E909", "U+1E90A", "U+1E90B", "U+1E90C", "U+1E90D", "U+1E90E", "U+1E90F", "U+1E910",
     "U+1E911", "U+1E912", "U+1E913", "U+1E914", "U+1E915", "U+1E916", "U+1E917", "U+1E918",
     "U+1E919", "U+1E91A", "U+1E91B", "U+1E91C", "U+1E91D", "U+1E91E", "U+1E91F", "U+1E920",
     "U+1E921", "U+1E922", "U+1E923", "U+1E924", "U+1E925", "U+1E926", "U+1E927", "U+1E928",
     "U+1E929", "U+1E92A", "U+1E92B", "U+1E92C", "U+1E92D", "U+1E92E", "U+1E92F", "U+1E930",
     "U+1E931", "U+1E932", "U+1E933", "U+1E934", "U+1E935", "U+1E936", "U+1E937", "U+1E938",
     "U+1E939", "U+1E93A", "U+1E93B", "U+1E93C", "U+1E93D", "U+1E93E", "U+1E93F", "U+1E940",
     "U+1E941", "U+1E942", "U+1E943", "U+1F130", "U+1F131", "U+1F132", "U+1F133", "U+1F134",
     "U+1F135", "U+1F136", "U+1F137", "U+1F138", "U+1F139", "U+1F13A", "U+1F13B", "U+1F13C",
     "U+1F13D", "U+1F13E", "U+1F13F", "U+1F140", "U+1F141", "U+1F142", "U+1F143", "U+1F144",
     "U+1F145", "U+1F146", "U+1F147", "U+1F148", "U+1F149", "U+1F150", "U+1F151", "U+1F152",
     "U+1F153", "U+1F154", "U+1F155", "U+1F156", "U+1F157", "U+1F158", "U+1F159", "U+1F15A",
     "U+1F15B", "U+1F15C", "U+1F15D", "U+1F15E", "U+1F15F", "U+1F160", "U+1F161", "U+1F162",
     "U+1F163", "U+1F164", "U+1F165", "U+1F166", "U+1F167", "U+1F168", "U+1F169", "U+1F170",
     "U+1F171", "U+1F172", "U+1F173", "U+1F174", "U+1F175", "U+1F176", "U+1F177", "U+1F178",
     "U+1F179", "U+1F17A", "U+1F17B", "U+1F17C", "U+1F17D", "U+1F17E", "U+1F17F", "U+1F180",
     "U+1F181", "U+1F182", "U+1F183", "U+1F184", "U+1F185", "U+1F186", "U+1F187", "U+1F188",
     "U+1F189"}

\* The case-ignorable characters, which the search for a cased character
\* on either side of a capital sigma skips.
CaseIgnorable ==
    {"'", ".", ":", "^", "U+0060", "¨", "­", "¯", "´", "·", "¸", "ʰ", "ʱ", "ʲ", "ʳ", "ʴ", "ʵ",
     "ʶ", "ʷ", "ʸ", "ʹ", "ʺ", "ʻ", "ʼ", "ʽ", "ʾ", "ʿ", "ˀ", "ˁ", "˂", "˃", "˄", "˅", "ˆ", "ˇ",
     "ˈ", "ˉ", "ˊ", "ˋ", "ˌ", "ˍ", "ˎ", "ˏ", "ː", "ˑ", "˒", "˓", "˔", "˕", "˖", "˗", "˘", "˙",
     "˚", "˛", "˜", "˝", "˞", "˟", "ˠ", "ˡ", "ˢ", "ˣ", "ˤ", "˥", "˦", "˧", "˨", "˩", "˪", "˫",
     "ˬ", "˭", "ˮ", "˯", "˰", "˱", "˲", "˳", "˴", "˵", "˶", "˷", "˸", "˹", "˺", "˻", "˼", "˽",
     "˾", "˿", "U+0300", "U+0301", "U+0302", "U+0303", "U+0304", "U+0305", "U+0306", "U+0307",
     "U+0308", "U+0309", "U+030A", "U+030B", "U+030C", "U+030D", "U+030E", "U+030F", "U+0310",
     "U+0311", "U+0312", "U+0313", "U+0314", "U+0315", "U+0316", "U+0317", "U+0318", "U+0319",
     "U+031A", "U+031B", "U+031C", "U+031D", "U+031E", "U+031F", "U+0320", "U+0321", "U+0322",
     "U+0323", "U+0324", "U+0325", "U+0326", "U+0327", "U+0328", "U+0329", "U+032A", "U+032B",
     "U+032C", "U+032D", "U+032E", "U+032F", "U+0330", "U+0331", "U+0332", "U+0333", "U+0334",
     "U+0335", "U+0336", "U+0337", "U+0338", "U+0339", "U+033A", "U+033B", "U+033C", "U+033D",
     "U+033E", "U+033F", "U+0340", "U+0341", "U+0342", "U+0343", "U+0344", "U+0345", "U+0346",
     "U+0347", "U+0348", "U+0349", "U+034A", "U+034B", "U+034C", "U+034D", "U+034E", "U+034F",
     "U+0350", "U+0351", "U+0352", "U+0353", "U+0354", "U+0355", "U+0356", "U+0357", "U+0358",
     "U+0359", "U+035A", "U+035B", "U+035C", "U+035D", "U+035E", "U+035F", "U+0360", "U+0361",
     "U+0362", "U+0363", "U+0364", "U+0365", "U+0366", "U+0367", "U+0368", "U+0369", "U+036A",
     "U+036B", "U+036C", "U+036D", "U+036E", "U+036F", "U+0374", "U+0375", "U+037A", "΄", "΅",
     "·", "҃", "҄", "҅", "҆", "҇", "҈", "҉", "U+0559", "U+055F", "֑", "֒", "֓", "֔", "֕", "֖",
     "֗", "֘", "֙", "֚", "֛", "֜", "֝", "֞", "֟", "֠", "֡", "֢", "֣", "֤", "֥", "֦", "֧", "֨",
     "֩", "֪", "֫", "֬", "֭", "֮", "֯", "ְ", "ֱ", "ֲ", "ֳ", "ִ", "ֵ", "ֶ", "ַ", "ָ", "ֹ", "ֺ",
     "ֻ", "ּ", "ֽ", "ֿ", "ׁ", "ׂ", "ׄ", "ׅ", "ׇ", "״", "U+0600", "U+0601", "U+0602", "U+0603",
     "U+0604", "U+0605", "U+0610", "U+0611", "U+0612", "U+0613", "U+0614", "U+0615", "U+0616",
     "U+0617", "U+0618", "U+0619", "U+061A", "U+061C", "U+0640", "U+064B", "U+064C", "U+064D",
     "U+064E", "U+064F", "U+0650", "U+0651", "U+0652", "U+0653", "U+0654", "U+0655", "U+0656",
     "U+0657", "U+0658", "U+0659", "U+065A", "U+065B", "U+065C", "U+065D", "U+065E", "U+065F",
     "U+0670", "ۖ", "ۗ", "ۘ", "ۙ", "ۚ", "ۛ", "ۜ", "۝", "۟", "۠", "ۡ", "ۢ", "ۣ", "ۤ", "ۥ", "ۦ",
     "ۧ", "ۨ", "۪", "۫", "۬", "ۭ", "U+070F", "U+0711", "U+0730", "U+0731", "U+0732", "U+0733",
     "U+0734", "U+0735", "U+0736", "U+0737", "U+0738", "U+0739", "U+073A", "U+073B", "U+073C",
     "U+073D", "U+073E", "U+073F", "U+0740", "U+0741", "U+0742", "U+0743", "U+0744", "U+0745",
     "U+0746", "U+0747", "U+0748", "U+0749", "U+074A", "ަ", "ާ", "ި", "ީ", "ު", "ޫ", "ެ", "ޭ",
     "ޮ", "ޯ", "ް", "߫", "߬", "߭", "߮", "߯", "߰", "߱", "߲", "߳", "ߴ", "ߵ", "ߺ", "߽", "U+0816",
     "U+0817", "U+0818", "U+0819", "U+081A", "U+081B", "U+081C", "U+081D", "U+081E", "U+081F",
     "U+0820", "U+0821", "U+0822", "U+0823", "U+0824", "U+0825", "U+0826", "U+0827", "U+0828",
     "U+0829", "U+082A", "U+082B", "U+082C", "U+082D", "U+0859", "U+085A", "U+085B", "࢈", "࢐",
     "࢑", "࢘", "࢙", "࢚", "࢛", "࢜", "࢝", "࢞", "࢟", "ࣉ", "࣊", "࣋", "࣌", "࣍", "࣎", "࣏", "࣐", "࣑",
     "࣒", "࣓", "ࣔ", "ࣕ", "ࣖ", "ࣗ", "ࣘ", "ࣙ", "ࣚ", "ࣛ", "ࣜ", "ࣝ", "ࣞ", "ࣟ", "࣠", "࣡", "࣢", "ࣣ",
     "ࣤ", "ࣥ", "ࣦ", "ࣧ", "ࣨ", "ࣩ", "࣪", "࣫", "࣬", "࣭", "࣮", "࣯", "ࣰ", "ࣱ", "ࣲ", "ࣳ", "ࣴ", "ࣵ",
     "ࣶ", "ࣷ", "ࣸ", "ࣹ", "ࣺ", "ࣻ", "ࣼ", "ࣽ", "ࣾ", "ࣿ", "U+0900", "U+0901", "U+0902", "U+093A",
     "U+093C", "U+0941", "U+0942", "U+0943", "U+0944", "U+0945", "U+0946", "U+0947", "U+0948",
     "U+094D", "U+0951", "U+0952", "U+0953", "U+0954", "U+0955", "U+0956", "U+0957", "U+0962",
     "U+0963", "U+0971", "ঁ", "়", "ু", "ূ", "ৃ", "ৄ", "্", "ৢ", "ৣ", "৾", "U+0A01", "U+0A02",
     "U+0A3C", "U+0A41", "U+0A42", "U+0A47", "U+0A48", "U+0A4B", "U+0A4C", "U+0A4D", "U+0A51",
     "U+0A70", "U+0A71", "U+0A75", "ઁ", "ં", "઼", "ુ", "ૂ", "ૃ", "ૄ", "ૅ", "ે", "ૈ", "્", "ૢ",
     "ૣ", "ૺ", "ૻ", "ૼ", "૽", "૾", "૿", "U+0B01", "U+0B3C", "U+0B3F", "U+0B41", "U+0B42",
     "U+0B43", "U+0B44", "U+0B4D", "U+0B55", "U+0B56", "U+0B62", "U+0B63", "ஂ", "ீ", "்",
     "U+0C00", "U+0C04", "U+0C3C", "U+0C3E", "U+0C3F", "U+0C40", "U+0C46", "U+0C47", "U+0C48",
     "U+0C4A", "U+0C4B", "U+0C4C", "U+0C4D", "U+0C55", "U+0C56", "U+0C62", "U+0C63", "ಁ", "಼",
     "ಿ", "ೆ", "ೌ", "್", "ೢ", "ೣ", "U+0D00", "U+0D01", "U+0D3B", "U+0D3C", "U+0D41", "U+0D42",
     "U+0D43", "U+0D44", "U+0D4D", "U+0D62", "U+0D63", "ඁ", "්", "ි", "ී", "ු", "ූ", "U+0E31",
     "U+0E34", "U+0E35", "U+0E36", "U+0E37", "U+0E38", "U+0E39", "U+0E3A", "U+0E46", "U+0E47",
     "U+0E48", "U+0E49", "U+0E4A", "U+0E4B", "U+0E4C", "U+0E4D", "U+0E4E", "ັ", "ິ", "ີ", "ຶ",
     "ື", "ຸ", "ູ", "຺", "ົ", "ຼ", "ໆ", "່", "້", "໊", "໋", "໌", "ໍ", "U+0F18", "U+0F19",
     "U+0F35", "U+0F37", "U+0F39", "U+0F71", "U+0F72", "U+0F73", "U+0F74", "U+0F75", "U+0F76",
     "U+0F77", "U+0F78", "U+0F79", "U+0F7A", "U+0F7B", "U+0F7C", "U+0F7D", "U+0F7E", "ྀ", "ཱྀ",
     "ྂ", "ྃ", "྄", "྆", "྇", "ྍ", "ྎ", "ྏ", "ྐ", "ྑ", "ྒ", "ྒྷ", "ྔ", "ྕ", "ྖ", "ྗ", "ྙ", "ྚ",
     "ྛ", "ྜ", "ྜྷ", "ྞ", "ྟ", "ྠ", "ྡ", "ྡྷ", "ྣ", "ྤ", "ྥ", "ྦ", "ྦྷ", "ྨ", "ྩ", "ྪ", "ྫ", "ྫྷ",
     "ྭ", "ྮ", "ྯ", "ྰ", "ྱ", "ྲ", "ླ", "ྴ", "ྵ", "ྶ", "ྷ", "ྸ", "ྐྵ", "ྺ", "ྻ", "ྼ", "࿆",
     "U+102D", "U+102E", "U+102F", "U+1030", "U+1032", "U+1033", "U+1034", "U+1035", "U+1036",
     "U+1037", "U+1039", "U+103A", "U+103D", "U+103E", "U+1058", "U+1059", "U+105E", "U+105F",
     "U+1060", "U+1071", "U+1072", "U+1073", "U+1074", "ႂ", "ႅ", "ႆ", "ႍ", "ႝ", "ჼ", "U+135D",
     "U+135E", "U+135F", "U+1712", "U+1713", "U+1714", "U+1732", "U+1733", "U+1752", "U+1753",
     "U+1772", "U+1773", "឴", "឵", "ិ", "ី", "ឹ", "ឺ", "ុ", "ូ", "ួ", "ំ", "៉", "៊", "់", "៌",
     "៍", "៎", "៏", "័", "៑", "្", "៓", "ៗ", "៝", "U+180B", "U+180C", "U+180D", "U+180E",
     "U+180F", "U+1843", "ᢅ", "ᢆ", "ᢩ", "U+1920", "U+1921", "U+1922", "U+1927", "U+1928",
     "U+1932", "U+1939", "U+193A", "U+193B", "U+1A17", "U+1A18", "U+1A1B", "U+1A56", "U+1A58",
     "U+1A59", "U+1A5A", "U+1A5B", "U+1A5C", "U+1A5D", "U+1A5E", "U+1A60", "U+1A62", "U+1A65",
     "U+1A66", "U+1A67", "U+1A68", "U+1A69", "U+1A6A", "U+1A6B", "U+1A6C", "U+1A73", "U+1A74",
     "U+1A75", "U+1A76", "U+1A77", "U+1A78", "U+1A79", "U+1A7A", "U+1A7B", "U+1A7C", "U+1A7F",
     "ᪧ", "᪰", "᪱", "᪲", "᪳", "᪴", "᪵", "᪶", "᪷", "᪸", "᪹", "᪺", "᪻", "᪼", "᪽", "᪾", "ᪿ", "ᫀ",
     "᫁", "᫂", "᫃", "᫄", "᫅", "᫆", "᫇", "᫈", "᫉", "᫊", "᫋", "ᫌ", "ᫍ", "ᫎ", "U+1B00", "U+1B01",
     "U+1B02", "U+1B03", "U+1B34", "U+1B36", "U+1B37", "U+1B38", "U+1B39", "U+1B3A", "U+1B3C",
     "U+1B42", "U+1B6B", "U+1B6C", "U+1B6D", "U+1B6E", "U+1B6F", "U+1B70", "U+1B71", "U+1B72",
     "U+1B73", "ᮀ", "ᮁ", "ᮢ", "ᮣ", "ᮤ", "ᮥ", "ᮨ", "ᮩ", "᮫", "ᮬ", "ᮭ", "᯦", "ᯨ", "ᯩ", "ᯭ", "ᯯ",
     "ᯰ", "ᯱ", "U+1C2C", "U+1C2D", "U+1C2E", "U+1C2F", "U+1C30", "U+1C31", "U+1C32", "U+1C33",
     "U+1C36", "U+1C37", "U+1C78", "U+1C79", "U+1C7A", "U+1C7B", "U+1C7C", "U+1C7D", "᳐", "᳑",
     "᳒", "᳔", "᳕", "᳖", "᳗", "᳘", "᳙", "᳚", "᳛", "᳜", "᳝", "᳞", "᳟", "᳠", "᳢", "᳣", "᳤", "᳥",
     "᳦", "᳧", "᳨", "᳭", "᳴", "᳸", "᳹", "U+1D2C", "U+1D2D", "U+1D2E", "U+1D2F", "U+1D30",
     "U+1D31", "U+1D32", "U+1D33", "U+1D34", "U+1D35", "U+1D36", "U+1D37", "U+1D38", "U+1D39",
     "U+1D3A", "U+1D3B", "U+1D3C", "U+1D3D", "U+1D3E", "U+1D3F", "U+1D40", "U+1D41", "U+1D42",
     "U+1D43", "U+1D44", "U+1D45", "U+1D46", "U+1D47", "U+1D48", "U+1D49", "U+1D4A", "U+1D4B",
     "U+1D4C", "U+1D4D", "U+1D4E", "U+1D4F", "U+1D50", "U+1D51", "U+1D52", "U+1D53", "U+1D54",
     "U+1D55", "U+1D56", "U+1D57", "U+1D58", "U+1D59", "U+1D5A", "U+1D5B", "U+1D5C", "U+1D5D",
     "U+1D5E", "U+1D5F", "U+1D60", "U+1D61", "U+1D62", "U+1D63", "U+1D64", "U+1D65", "U+1D66",
     "U+1D67", "U+1D68", "U+1D69", "U+1D6A", "U+1D78", "ᶛ", "ᶜ", "ᶝ", "ᶞ", "ᶟ", "ᶠ", "ᶡ", "ᶢ",
     "ᶣ", "ᶤ", "ᶥ", "ᶦ", "ᶧ", "ᶨ", "ᶩ", "ᶪ", "ᶫ", "ᶬ", "ᶭ", "ᶮ", "ᶯ", "ᶰ", "ᶱ", "ᶲ", "ᶳ", "ᶴ",
     "ᶵ", "ᶶ", "ᶷ", "ᶸ", "ᶹ", "ᶺ", "ᶻ", "ᶼ", "ᶽ", "ᶾ", "ᶿ", "᷀", "᷁", "᷂", "᷃", "᷄", "᷅", "᷆",
     "᷇", "᷈", "᷉", "᷊", "᷋", "᷌", "᷍", "᷎", "᷏", "᷐", "᷑", "᷒", "ᷓ", "ᷔ", "ᷕ", "ᷖ", "ᷗ", "ᷘ",
     "ᷙ", "ᷚ", "ᷛ", "ᷜ", "ᷝ", "ᷞ", "ᷟ", "ᷠ", "ᷡ", "ᷢ", "ᷣ", "ᷤ", "ᷥ", "ᷦ", "ᷧ", "ᷨ", "ᷩ", "ᷪ",
     "ᷫ", "ᷬ", "ᷭ", "ᷮ", "ᷯ", "ᷰ", "ᷱ", "ᷲ", "ᷳ", "ᷴ", "᷵", "᷶", "᷷", "᷸", "᷹", "᷺", "᷻", "᷼",
     "᷽", "᷾", "᷿", "᾽", "᾿", "῀", "῁", "῍", "῎", "῏", "῝", "῞", "῟", "῭", "΅", "`", "´", "῾",
     "U+200B", "U+200C", "U+200D", "U+200E", "U+200F", "U+2018", "U+2019", "U+2024", "U+2027",
     "U+202A", "U+202B", "U+202C", "U+202D", "U+202E", "U+2060", "U+2061", "U+2062", "U+2063",
     "U+2064", "U+2066", "U+2067", "U+2068", "U+2069", "U+206A", "U+206B", "U+206C", "U+206D",
     "U+206E", "U+206F", "U+2071", "U+207F", "ₐ", "ₑ", "ₒ", "ₓ", "ₔ", "ₕ", "ₖ", "ₗ", "ₘ", "ₙ",
     "ₚ", "ₛ", "ₜ", "⃐", "⃑", "⃒", "⃓", "⃔", "⃕", "⃖", "⃗", "⃘", "⃙", "⃚", "⃛", "⃜", "⃝", "⃞",
     "⃟", "⃠", "⃡", "⃢", "⃣", "⃤", "⃥", "⃦", "⃧", "⃨", "⃩", "⃪", "⃫", "⃬", "⃭", "⃮", "⃯", "⃰",
     "U+2C7C", "U+2C7D", "⳯", "⳰", "⳱", "U+2D6F", "U+2D7F", "ⷠ", "ⷡ", "ⷢ", "ⷣ", "ⷤ", "ⷥ", "ⷦ",
     "ⷧ", "ⷨ", "ⷩ", "ⷪ", "ⷫ", "ⷬ", "ⷭ", "ⷮ", "ⷯ", "ⷰ", "ⷱ", "ⷲ", "ⷳ", "ⷴ", "ⷵ", "ⷶ", "ⷷ", "ⷸ",
     "ⷹ", "ⷺ", "ⷻ", "ⷼ", "ⷽ", "ⷾ", "ⷿ", "U+2E2F", "U+3005", "U+302A", "U+302B", "U+302C",
     "U+302D", "U+3031", "U+3032", "U+3033", "U+3034", "U+3035", "U+303B", "゙", "゚", "゛", "゜",
     "ゝ", "ゞ", "ー", "ヽ", "ヾ", "U+A015", "ꓸ", "ꓹ", "ꓺ", "ꓻ", "ꓼ", "ꓽ", "U+A60C", "U+A66F",
     "U+A670", "U+A671", "U+A672", "U+A674", "U+A675", "U+A676", "U+A677", "U+A678", "U+A679",
     "U+A67A", "U+A67B", "U+A67C", "U+A67D", "U+A67F", "ꚜ", "ꚝ", "ꚞ", "ꚟ", "꛰", "꛱", "U+A700",
     "U+A701", "U+A702", "U+A703", "U+A704", "U+A705", "U+A706", "U+A707", "U+A708", "U+A709",
     "U+A70A", "U+A70B", "U+A70C", "U+A70D", "U+A70E", "U+A70F", "U+A710", "U+A711", "U+A712",
     "U+A713", "U+A714", "U+A715", "U+A716", "U+A717", "U+A718", "U+A719", "U+A71A", "U+A71B",
     "U+A71C", "U+A71D", "U+A71E", "U+A71F", "U+A720", "U+A721", "U+A770", "ꞈ", "꞉", "꞊", "ꟲ",
     "ꟳ", "ꟴ", "ꟸ", "ꟹ", "U+A802", "U+A806", "U+A80B", "U+A825", "U+A826", "U+A82C", "꣄", "ꣅ",
     "꣠", "꣡", "꣢", "꣣", "꣤", "꣥", "꣦", "꣧", "꣨", "꣩", "꣪", "꣫", "꣬", "꣭", "꣮", "꣯", "꣰", "꣱",
     "ꣿ", "U+A926", "U+A927", "U+A928", "U+A929", "U+A92A", "U+A92B", "U+A92C", "U+A92D",
     "U+A947", "U+A948", "U+A949", "U+A94A", "U+A94B", "U+A94C", "U+A94D", "U+A94E", "U+A94F",
     "U+A950", "U+A951", "ꦀ", "ꦁ", "ꦂ", "꦳", "ꦶ", "ꦷ", "ꦸ", "ꦹ", "ꦼ", "ꦽ", "ꧏ", "ꧥ", "ꧦ",
     "U+AA29", "U+AA2A", "U+AA2B", "U+AA2C", "U+AA2D", "U+AA2E", "U+AA31", "U+AA32", "U+AA35",
     "U+AA36", "U+AA43", "U+AA4C", "U+AA70", "U+AA7C", "ꪰ", "ꪲ", "ꪳ", "ꪴ", "ꪷ", "ꪸ", "ꪾ", "꪿",
     "꫁", "ꫝ", "ꫬ", "ꫭ", "ꫳ", "ꫴ", "꫶", "U+AB5B", "U+AB5C", "U+AB5D", "U+AB5E", "U+AB5F",
     "U+AB69", "U+AB6A", "U+AB6B", "ꯥ", "ꯨ", "꯭", "U+FB1E", "﮲", "﮳", "﮴", "﮵", "﮶", "﮷", "﮸",
     "﮹", "﮺", "﮻", "﮼", "﮽", "﮾", "﮿", "﯀", "﯁", "﯂", "U+FE00", "U+FE01", "U+FE02", "U+FE03",
     "U+FE04", "U+FE05", "U+FE06", "U+FE07", "U+FE08", "U+FE09", "U+FE0A", "U+FE0B", "U+FE0C",
     "U+FE0D", "U+FE0E", "U+FE0F", "U+FE13", "U+FE20", "U+FE21", "U+FE22", "U+FE23", "U+FE24",
     "U+FE25", "U+FE26", "U+FE27", "U+FE28", "U+FE29", "U+FE2A", "U+FE2B", "U+FE2C", "U+FE2D",
     "U+FE2E", "U+FE2F", "U+FE52", "U+FE55", "﻿", "U+FF07", "U+FF0E", "U+FF1A", "U+FF3E",
     "U+FF40", "U+FF70", "ﾞ", "ﾟ", "￣", "￹", "￺", "￻", "U+101FD", "U+102E0", "U+10376",
     "U+10377", "U+10378", "U+10379", "U+1037A", "U+10780", "U+10781", "U+10782", "U+10783",
     "U+10784", "U+10785", "U+10787", "U+10788", "U+10789", "U+1078A", "U+1078B", "U+1078C",
     "U+1078D", "U+1078E", "U+1078F", "U+10790", "U+10791", "U+10792", "U+10793", "U+10794",
     "U+10795", "U+10796", "U+10797", "U+10798", "U+10799", "U+1079A", "U+1079B", "U+1079C",
     "U+1079D", "U+1079E", "U+1079F", "U+107A0", "U+107A1", "U+107A2", "U+107A3", "U+107A4",
     "U+107A5", "U+107A6", "U+107A7", "U+107A8", "U+107A9", "U+107AA", "U+107AB", "U+107AC",
     "U+107AD", "U+107AE", "U+107AF", "U+107B0", "U+107B2", "U+107B3", "U+107B4", "U+107B5",
     "U+107B6", "U+107B7", "U+107B8", "U+107B9", "U+107BA", "U+10A01", "U+10A02", "U+10A03",
     "U+10A05", "U+10A06", "U+10A0C", "U+10A0D", "U+10A0E", "U+10A0F", "U+10A38", "U+10A39",
     "U+10A3A", "U+10A3F", "U+10AE5", "U+10AE6", "U+10D24", "U+10D25", "U+10D26", "U+10D27",
     "U+10EAB", "U+10EAC", "U+10F46", "U+10F47", "U+10F48", "U+10F49", "U+10F4A", "U+10F4B",
     "U+10F4C", "U+10F4D", "U+10F4E", "U+10F4F", "U+10F50", "U+10F82", "U+10F83", "U+10F84",
     "U+10F85", "U+11001", "U+11038", "U+11039", "U+1103A", "U+1103B", "U+1103C", "U+1103D",
     "U+1103E", "U+1103F", "U+11040", "U+11041", "U+11042", "U+11043", "U+11044", "U+11045",
     "U+11046", "U+11070", "U+11073", "U+11074", "U+1107F", "U+11080", "U+11081", "U+110B3",
     "U+110B4", "U+110B5", "U+110B6", "U+110B9", "U+110BA", "U+110BD", "U+110C2", "U+110CD",
     "U+11100", "U+11101", "U+11102", "U+11127", "U+11128", "U+11129", "U+1112A", "U+1112B",
     "U+1112D", "U+1112E", "U+1112F", "U+11130", "U+11131", "U+11132", "U+11133", "U+11134",
     "U+11173", "U+11180", "U+11181", "U+111B6", "U+111B7", "U+111B8", "U+111B9", "U+111BA",
     "U+111BB", "U+111BC", "U+111BD", "U+111BE", "U+111C9", "U+111CA", "U+111CB", "U+111CC",
     "U+111CF", "U+1122F", "U+11230", "U+11231", "U+11234", "U+11236", "U+11237", "U+1123E",
     "U+112DF", "U+112E3", "U+112E4", "U+112E5", "U+112E6", "U+112E7", "U+112E8", "U+112E9",
     "U+112EA", "U+11300", "U+11301", "U+1133B", "U+1133C", "U+11340", "U+11366", "U+11367",
     "U+11368", "U+11369", "U+1136A", "U+1136B", "U+1136C", "U+11370", "U+11371", "U+11372",
     "U+11373", "U+11374", "U+11438", "U+11439", "U+1143A", "U+1143B", "U+1143C", "U+1143D",
     "U+1143E", "U+1143F", "U+11442", "U+11443", "U+11444", "U+11446", "U+1145E", "U+114B3",
     "U+114B4", "U+114B5", "U+114B6", "U+114B7", "U+114B8", "U+114BA", "U+114BF", "U+114C0",
     "U+114C2", "U+114C3", "U+115B2", "U+115B3", "U+115B4", "U+115B5", "U+115BC", "U+115BD",
     "U+115BF", "U+115C0", "U+115DC", "U+115DD", "U+11633", "U+11634", "U+11635", "U+11636",
     "U+11637", "U+11638", "U+11639", "U+1163A", "U+1163D", "U+1163F", "U+11640", "U+116AB",
     "U+116AD", "U+116B0", "U+116B1", "U+116B2", "U+116B3", "U+116B4", "U+116B5", "U+116B7",
     "U+1171D", "U+1171E", "U+1171F", "U+11722", "U+11723", "U+11724", "U+11725", "U+11727",
     "U+11728", "U+11729", "U+1172A", "U+1172B", "U+1182F", "U+11830", "U+11831", "U+11832",
     "U+11833", "U+11834", "U+11835", "U+11836", "U+11837", "U+11839", "U+1183A", "U+1193B",
     "U+1193C", "U+1193E", "U+11943", "U+119D4", "U+119D5", "U+119D6", "U+119D7", "U+119DA",
     "U+119DB", "U+119E0", "U+11A01", "U+11A02", "U+11A03", "U+11A04", "U+11A05", "U+11A06",
     "U+11A07", "U+11A08", "U+11A09", "U+11A0A", "U+11A33", "U+11A34", "U+11A35", "U+11A36",
     "U+11A37", "U+11A38", "U+11A3B", "U+11A3C", "U+11A3D", "U+11A3E", "U+11A47", "U+11A51",
     "U+11A52", "U+11A53", "U+11A54", "U+11A55", "U+11A56", "U+11A59", "U+11A5A", "U+11A5B",
     "U+11A8A", "U+11A8B", "U+11A8C", "U+11A8D", "U+11A8E", "U+11A8F", "U+11A90", "U+11A91",
     "U+11A92", "U+11A93", "U+11A94", "U+11A95", "U+11A96", "U+11A98", "U+11A99", "U+11C30",
     "U+11C31", "U+11C32", "U+11C33", "U+11C34", "U+11C35", "U+11C36", "U+11C38", "U+11C39",
     "U+11C3A", "U+11C3B", "U+11C3C", "U+11C3D", "U+11C3F", "U+11C92", "U+11C93", "U+11C94",
     "U+11C95", "U+11C96", "U+11C97", "U+11C98", "U+11C99", "U+11C9A", "U+11C9B", "U+11C9C",
     "U+11C9D", "U+11C9E", "U+11C9F", "U+11CA0", "U+11CA1", "U+11CA2", "U+11CA3", "U+11CA4",
     "U+11CA5", "U+11CA6", "U+11CA7", "U+11CAA", "U+11CAB", "U+11CAC", "U+11CAD", "U+11CAE",
     "U+11CAF", "U+11CB0", "U+11CB2", "U+11CB3", "U+11CB5", "U+11CB6", "U+11D31", "U+11D32",
     "U+11D33", "U+11D34", "U+11D35", "U+11D36", "U+11D3A", "U+11D3C", "U+11D3D", "U+11D3F",
     "U+11D40", "U+11D41", "U+11D42", "U+11D43", "U+11D44", "U+11D45", "U+11D47", "U+11D90",
     "U+11D91", "U+11D95", "U+11D97", "U+11EF3", "U+11EF4", "U+13430", "U+13431", "U+13432",
     "U+13433", "U+13434", "U+13435", "U+13436", "U+13437", "U+13438", "U+16AF0", "U+16AF1",
     "U+16AF2", "U+16AF3", "U+16AF4", "U+16B30", "U+16B31", "U+16B32", "U+16B33", "U+16B34",
     "U+16B35", "U+16B36", "U+16B40", "U+16B41", "U+16B42", "U+16B43", "U+16F4F", "U+16F8F",
     "U+16F90", "U+16F91", "U+16F92", "U+16F93", "U+16F94", "U+16F95", "U+16F96", "U+16F97",
     "U+16F98", "U+16F99", "U+16F9A", "U+16F9B", "U+16F9C", "U+16F9D", "U+16F9E", "U+16F9F",
     "U+16FE0", "U+16FE1", "U+16FE3", "U+16FE4", "U+1AFF0", "U+1AFF1", "U+1AFF2", "U+1AFF3",
     "U+1AFF5", "U+1AFF6", "U+1AFF7", "U+1AFF8", "U+1AFF9", "U+1AFFA", "U+1AFFB", "U+1AFFD",
     "U+1AFFE", "U+1BC9D", "U+1BC9E", "U+1BCA0", "U+1BCA1", "U+1BCA2", "U+1BCA3", "U+1CF00",
     "U+1CF01", "U+1CF02", "U+1CF03", "U+1CF04", "U+1CF05", "U+1CF06", "U+1CF07", "U+1CF08",
     "U+1CF09", "U+1CF0A", "U+1CF0B", "U+1CF0C", "U+1CF0D", "U+1CF0E", "U+1CF0F", "U+1CF10",
     "U+1CF11", "U+1CF12", "U+1CF13", "U+1CF14", "U+1CF15", "U+1CF16", "U+1CF17", "U+1CF18",
     "U+1CF19", "U+1CF1A", "U+1CF1B", "U+1CF1C", "U+1CF1D", "U+1CF1E", "U+1CF1F", "U+1CF20",
     "U+1CF21", "U+1CF22", "U+1CF23", "U+1CF24", "U+1CF25", "U+1CF26", "U+1CF27", "U+1CF28",
     "U+1CF29", "U+1CF2A", "U+1CF2B", "U+1CF2C", "U+1CF2D", "U+1CF30", "U+1CF31", "U+1CF32",
     "U+1CF33", "U+1CF34", "U+1CF35", "U+1CF36", "U+1CF37", "U+1CF38", "U+1CF39", "U+1CF3A",
     "U+1CF3B", "U+1CF3C", "U+1CF3D", "U+1CF3E", "U+1CF3F", "U+1CF40", "U+1CF41", "U+1CF42",
     "U+1CF43", "U+1CF44", "U+1CF45", "U+1CF46", "U+1D167", "U+1D168", "U+1D169", "U+1D173",
     "U+1D174", "U+1D175", "U+1D176", "U+1D177", "U+1D178", "U+1D179", "U+1D17A", "U+1D17B",
     "U+1D17C", "U+1D17D", "U+1D17E", "U+1D17F", "U+1D180", "U+1D181", "U+1D182", "U+1D185",
     "U+1D186", "U+1D187", "U+1D188", "U+1D189", "U+1D18A", "U+1D18B", "U+1D1AA", "U+1D1AB",
     "U+1D1AC", "U+1D1AD", "U+1D242", "U+1D243", "U+1D244", "U+1DA00", "U+1DA01", "U+1DA02",
     "U+1DA03", "U+1DA04", "U+1DA05", "U+1DA06", "U+1DA07", "U+1DA08", "U+1DA09", "U+1DA0A",
     "U+1DA0B", "U+1DA0C", "U+1DA0D", "U+1DA0E", "U+1DA0F", "U+1DA10", "U+1DA11", "U+1DA12",
     "U+1DA13", "U+1DA14", "U+1DA15", "U+1DA16", "U+1DA17", "U+1DA18", "U+1DA19", "U+1DA1A",
     "U+1DA1B", "U+1DA1C", "U+1DA1D", "U+1DA1E", "U+1DA1F", "U+1DA20", "U+1DA21", "U+1DA22",
     "U+1DA23", "U+1DA24", "U+1DA25", "U+1DA26", "U+1DA27", "U+1DA28", "U+1DA29", "U+1DA2A",
     "U+1DA2B", "U+1DA2C", "U+1DA2D", "U+1DA2E", "U+1DA2F", "U+1DA30", "U+1DA31", "U+1DA32",
     "U+1DA33", "U+1DA34", "U+1DA35", "U+1DA36", "U+1DA3B", "U+1DA3C", "U+1DA3D", "U+1DA3E",
     "U+1DA3F", "U+1DA40", "U+1DA41", "U+1DA42", "U+1DA43", "U+1DA44", "U+1DA45", "U+1DA46",
     "U+1DA47", "U+1DA48", "U+1DA49", "U+1DA4A", "U+1DA4B", "U+1DA4C", "U+1DA4D", "U+1DA4E",
     "U+1DA4F", "U+1DA50", "U+1DA51", "U+1DA52", "U+1DA53", "U+1DA54", "U+1DA55", "U+1DA56",
     "U+1DA57", "U+1DA58", "U+1DA59", "U+1DA5A", "U+1DA5B", "U+1DA5C", "U+1DA5D", "U+1DA5E",
     "U+1DA5F", "U+1DA60", "U+1DA61", "U+1DA62", "U+1DA63", "U+1DA64", "U+1DA65", "U+1DA66",
     "U+1DA67", "U+1DA68", "U+1DA69", "U+1DA6A", "U+1DA6B", "U+1DA6C", "U+1DA75", "U+1DA84",
     "U+1DA9B", "U+1DA9C", "U+1DA9D", "U+1DA9E", "U+1DA9F", "U+1DAA1", "U+1DAA2", "U+1DAA3",
     "U+1DAA4", "U+1DAA5", "U+1DAA6", "U+1DAA7", "U+1DAA8", "U+1DAA9", "U+1DAAA", "U+1DAAB",
     "U+1DAAC", "U+1DAAD", "U+1DAAE", "U+1DAAF", "U+1E000", "U+1E001", "U+1E002", "U+1E003",
     "U+1E004", "U+1E005", "U+1E006", "U+1E008", "U+1E009", "U+1E00A", "U+1E00B", "U+1E00C",
     "U+1E00D", "U+1E00E", "U+1E00F", "U+1E010", "U+1E011", "U+1E012", "U+1E013", "U+1E014",
     "U+1E015", "U+1E016", "U+1E017", "U+1E018", "U+1E01B", "U+1E01C", "U+1E01D", "U+1E01E",
     "U+1E01F", "U+1E020", "U+1E021", "U+1E023", "U+1E024", "U+1E026", "U+1E027", "U+1E028",
     "U+1E029", "U+1E02A", "U+1E130", "U+1E131", "U+1E132", "U+1E133", "U+1E134", "U+1E135",
     "U+1E136", "U+1E137", "U+1E138", "U+1E139", "U+1E13A", "U+1E13B", "U+1E13C", "U+1E13D",
     "U+1E2AE", "U+1E2EC", "U+1E2ED", "U+1E2EE", "U+1E2EF", "U+1E8D0", "U+1E8D1", "U+1E8D2",
     "U+1E8D3", "U+1E8D4", "U+1E8D5", "U+1E8D6", "U+1E944", "U+1E945", "U+1E946", "U+1E947",
     "U+1E948", "U+1E949", "U+1E94A", "U+1E94B", "U+1F3FB", "U+1F3FC", "U+1F3FD", "U+1F3FE",
     "U+1F3FF", "U+E0001", "U+E0020", "U+E0021", "U+E0022", "U+E0023", "U+E0024", "U+E0025",
     "U+E0026", "U+E0027", "U+E0028", "U+E0029", "U+E002A", "U+E002B", "U+E002C", "U+E002D",
     "U+E002E", "U+E002F", "U+E0030", "U+E0031", "U+E0032", "U+E0033", "U+E0034", "U+E0035",
     "U+E0036", "U+E0037", "U+E0038", "U+E0039", "U+E003A", "U+E003B", "U+E003C", "U+E003D",
     "U+E003E", "U+E003F", "U+E0040", "U+E0041", "U+E0042", "U+E0043", "U+E0044", "U+E0045",
     "U+E0046", "U+E0047", "U+E0048", "U+E0049", "U+E004A", "U+E004B", "U+E004C", "U+E004D",
     "U+E004E", "U+E004F", "U+E0050", "U+E0051", "U+E0052", "U+E0053", "U+E0054", "U+E0055",
     "U+E0056", "U+E0057", "U+E0058", "U+E0059", "U+E005A", "U+E005B", "U+E005C", "U+E005D",
     "U+E005E", "U+E005F", "U+E0060", "U+E0061", "U+E0062", "U+E0063", "U+E0064", "U+E0065",
     "U+E0066", "U+E0067", "U+E0068", "U+E0069", "U+E006A", "U+E006B", "U+E006C", "U+E006D",
     "U+E006E", "U+E006F", "U+E0070", "U+E0071", "U+E0072", "U+E0073", "U+E0074", "U+E0075",
     "U+E0076", "U+E0077", "U+E0078", "U+E0079", "U+E007A", "U+E007B", "U+E007C", "U+E007D",
     "U+E007E", "U+E007F", "U+E0100", "U+E0101", "U+E0102", "U+E0103", "U+E0104", "U+E0105",
     "U+E0106", "U+E0107", "U+E0108", "U+E0109", "U+E010A", "U+E010B", "U+E010C", "U+E010D",
     "U+E010E", "U+E010F", "U+E0110", "U+E0111", "U+E0112", "U+E0113", "U+E0114", "U+E0115",
     "U+E0116", "U+E0117", "U+E0118", "U+E0119", "U+E011A", "U+E011B", "U+E011C", "U+E011D",
     "U+E011E", "U+E011F", "U+E0120", "U+E0121", "U+E0122", "U+E0123", "U+E0124", "U+E0125",
     "U+E0126", "U+E0127", "U+E0128", "U+E0129", "U+E012A", "U+E012B", "U+E012C", "U+E012D",
     "U+E012E", "U+E012F", "U+E0130", "U+E0131", "U+E0132", "U+E0133", "U+E0134", "U+E0135",
     "U+E0136", "U+E0137", "U+E0138", "U+E0139", "U+E013A", "U+E013B", "U+E013C", "U+E013D",
     "U+E013E", "U+E013F", "U+E0140", "U+E0141", "U+E0142", "U+E0143", "U+E0144", "U+E0145",
     "U+E0146", "U+E0147", "U+E0148", "U+E0149", "U+E014A", "U+E014B", "U+E014C", "U+E014D",
     "U+E014E", "U+E014F", "U+E0150", "U+E0151", "U+E0152", "U+E0153", "U+E0154", "U+E0155",
     "U+E0156", "U+E0157", "U+E0158", "U+E0159", "U+E015A", "U+E015B", "U+E015C", "U+E015D",
     "U+E015E", "U+E015F", "U+E0160", "U+E0161", "U+E0162", "U+E0163", "U+E0164", "U+E0165",
     "U+E0166", "U+E0167", "U+E0168", "U+E0169", "U+E016A", "U+E016B", "U+E016C", "U+E016D",
     "U+E016E", "U+E016F", "U+E0170", "U+E0171", "U+E0172", "U+E0173", "U+E0174", "U+E0175",
     "U+E0176", "U+E0177", "U+E0178", "U+E0179", "U+E017A", "U+E017B", "U+E017C", "U+E017D",
     "U+E017E", "U+E017F", "U+E0180", "U+E0181", "U+E0182", "U+E0183", "U+E0184", "U+E0185",
     "U+E0186", "U+E0187", "U+E0188", "U+E0189", "U+E018A", "U+E018B", "U+E018C", "U+E018D",
     "U+E018E", "U+E018F", "U+E0190", "U+E0191", "U+E0192", "U+E0193", "U+E0194", "U+E0195",
     "U+E0196", "U+E0197", "U+E0198", "U+E0199", "U+E019A", "U+E019B", "U+E019C", "U+E019D",
     "U+E019E", "U+E019F", "U+E01A0", "U+E01A1", "U+E01A2", "U+E01A3", "U+E01A4", "U+E01A5",
     "U+E01A6", "U+E01A7", "U+E01A8", "U+E01A9", "U+E01AA", "U+E01AB", "U+E01AC", "U+E01AD",
     "U+E01AE", "U+E01AF", "U+E01B0", "U+E01B1", "U+E01B2", "U+E01B3", "U+E01B4", "U+E01B5",
     "U+E01B6", "U+E01B7", "U+E01B8", "U+E01B9", "U+E01BA", "U+E01BB", "U+E01BC", "U+E01BD",
     "U+E01BE", "U+E01BF", "U+E01C0", "U+E01C1", "U+E01C2", "U+E01C3", "U+E01C4", "U+E01C5",
     "U+E01C6", "U+E01C7", "U+E01C8", "U+E01C9", "U+E01CA", "U+E01CB", "U+E01CC", "U+E01CD",
     "U+E01CE", "U+E01CF", "U+E01D0", "U+E01D1", "U+E01D2", "U+E01D3", "U+E01D4", "U+E01D5",
     "U+E01D6", "U+E01D7", "U+E01D8", "U+E01D9", "U+E01DA", "U+E01DB", "U+E01DC", "U+E01DD",
     "U+E01DE", "U+E01DF", "U+E01E0", "U+E01E1", "U+E01E2", "U+E01E3", "U+E01E4", "U+E01E5",
     "U+E01E6", "U+E01E7", "U+E01E8", "U+E01E9", "U+E01EA", "U+E01EB", "U+E01EC", "U+E01ED",
     "U+E01EE", "U+E01EF"}

\* str.lower() of one character whose lower case is one character and does
\* not depend on its neighbours; of a capital sigma, the lower case it has
\* outside the final position.
LowerChar(ch) == IF ch \in UpperChars THEN LowerOf[ch] ELSE ch

\* The positions before and after position i of str whose characters are not
\* case-ignorable.
SolidBefore(str, i) == {j \in 1..(i - 1) : str[j] \notin CaseIgnorable}

SolidAfter(str, i) == {j \in (i + 1)..Len(str) : str[j] \notin CaseIgnorable}

\* The capital sigma at position i of str is in the final position: the
\* nearest character before it that is not case-ignorable is cased, and the
\* nearest such character after it, if any, is not.
FinalSigma(str, i) ==
    /\ SolidBefore(str, i) # {}
    /\ str[CHOOSE j \in SolidBefore(str, i) : \A k \in SolidBefore(str, i) : k <= j]
          \in CasedChars
    /\ \/ SolidAfter(str, i) = {}
       \/ str[CHOOSE j \in SolidAfter(str, i) : \A k \in SolidAfter(str, i) : j <= k]
             \notin CasedChars

\* str.lower() of the character at position i of str, as a text: the final
\* sigma for a capital sigma in the final position, and the two characters i
\* and U+0307 for U+0130, the one character with a longer lower case.
LowerAt(str, i) ==
    IF str[i] = "Σ" /\ FinalSigma(str, i) THEN <<"ς">>
    ELSE IF str[i] = "U+0130" THEN <<"i", "U+0307">>
    ELSE <<LowerChar(str[i])>>

RECURSIVE LowerFrom(_, _)
LowerFrom(str, i) ==
    IF i > Len(str) THEN <<>> ELSE LowerAt(str, i) \o LowerFrom(str, i + 1)

\* str.lower()
Lower(str) == LowerFrom(str, 1)

\* The characters str.strip() removes from both ends, those str.isspace()
\* holds of: tab, newline, vertical tab, form feed, carriage return, the
\* file, group, record and unit separators (U+001C to U+001F), space, next
\* line (U+0085), no-break space (U+00A0) and the spaces of U+1680, U+2000
\* to U+200A, U+2028, U+2029, U+202F, U+205F and U+3000.
IsSpace(ch) ==
    ch \in {"\t", "\n", "", "\f", "\r", "", "", "", "", " ", "", " ", " ", "U+2000",
            "U+2001", "U+2002", "U+2003", "U+2004", "U+2005", "U+2006", "U+2007", "U+2008",
            "U+2009", "U+200A", "U+2028", "U+2029", "U+202F", "U+205F", "U+3000"}

RECURSIVE LStrip(_)
LStrip(str) ==
    IF str # <<>> /\ IsSpace(str[1]) THEN LStrip(Tail(str)) ELSE str

RECURSIVE RStrip(_)
RStrip(str) ==
    IF str # <<>> /\ IsSpace(str[Len(str)])
    THEN RStrip(SubSeq(str, 1, Len(str) - 1)) ELSE str

\* str.strip()
Strip(str) == RStrip(LStrip(str))

\* df[col].dropna().str.lower().str.strip().nunique()
NormalizedUnique(cells) ==
    Cardinality({Strip(Lower(Values(cells)[i])) : i \in DOMAIN Values(cells)})

\* The number of inconsistent values of an object column without the upper
\* end of the band: 0 unless the column has more than 1 distinct value.
InconsistentCountNoBand(cells) ==
    IF NUnique(cells) > 1
    THEN NUnique(cells) - NormalizedUnique(cells)
    ELSE 0

\* The number of inconsistent values of an object column: 0 unless the
\* column has more than 1 and fewer than 100 distinct values.
InconsistentCount(cells) ==
    IF NUnique(cells) > 1 /\ NUnique(cells) < 100
    THEN NUnique(cells) - NormalizedUnique(cells)
    ELSE 0

\* QualityAgent._check_categorical_consistency: what is detected for one
\* object column whose normalized values are fewer than its values.
InconsistentDetected(col) ==
    [fixed |->
        [type        |-> "inconsistent_categories",
         column      |-> col.column_name,
         severity    |-> "info",
         description |-> <<"'", col.column_name, "' has ",
                           ToString(InconsistentCount(col.cells)),
                           " inconsistent values (case/whitespace issues)">>,
         count       |-> InconsistentCount(col.cells),
         percentage  |-> None,
         bounds      |-> None],
     fallback |->
        [action |-> T("Standardize categorical values"),
         code   |-> <<"df['", col.column_name, "'] = df['", col.column_name,
                      "'].str.lower().str.strip()">>,
         impact |-> <<"Reduce ", ToString(InconsistentCount(col.cells)),
                      " redundant categories">>]]

\* df.select_dtypes(include=['object']).columns with an inconsistency.
ColsInconsistent(df) ==
    SelectSeq(df.columns,
              LAMBDA c : c.dtype = "object" /\ InconsistentCount(c.cells) > 0)

InconsistentAll(df) ==
    [j \in DOMAIN ColsInconsistent(df) |-> InconsistentDetected(ColsInconsistent(df)[j])]

\* Everything the four checks detect, in the order analyze runs them:
\* missing values, duplicates, outliers, categorical inconsistencies.
Detected(df) ==
    MissingAll(df) \o DuplicatesAll(df) \o OutliersAll(df) \o InconsistentAll(df)

\* The number of generation calls of QualityAgent.analyze(df): one per issue.
QualityCalls(df) == Len(Detected(df))

\* The summary counts with total_issues counting only the issues that are
\* not of severity info.
RECURSIVE SummarizeSevere(_)
SummarizeSevere(issues) ==
    IF issues = <<>> THEN [total_issues |-> 0, critical |-> 0, warnings |-> 0, info |-> 0]
    ELSE LET rest == SummarizeSevere(SubSeq(issues, 1, Len(issues) - 1))
             sev  == issues[Len(issues)].severity
         IN  [[rest EXCEPT !.total_issues = IF sev = "info" THEN @ ELSE @ + 1]
                EXCEPT ![sev] = @ + 1]

\* The summary counts, folded over the issues from the zero summary.
RECURSIVE Summarize(_)
Summarize(issues) ==
    IF issues = <<>> THEN [total_issues |-> 0, critical |-> 0, warnings |-> 0, info |-> 0]
    ELSE LET rest == Summarize(SubSeq(issues, 1, Len(issues) - 1))
             sev  == issues[Len(issues)].severity
         IN  [[rest EXCEPT !.total_issues = @ + 1] EXCEPT ![sev] = @ + 1]

\* The results for the detected issues: each with the recommendation of
\* its generation call, ended as outs gives, and the summary counts.
Results(issues, detected, outs) ==
    Return([issues_found |-> issues, summary |-> Summarize(issues)],
           [j \in DOMAIN detected |->
               GenCall("QualityRecommender", detected[j].fixed.column, outs[j])])

Recommend(detected, outs) ==
    Results([j \in DOMAIN detected |-> Issue(detected[j], outs[j])], detected, outs)

\* QualityAgent.analyze(df): the issues of the four checks, each with its
\* generation call, and the summary counts.
QualityAnalyze(df, fault, outs) ==
    IF fault # NoFault THEN Raise(fault, <<>>)
    ELSE Recommend(Detected(df), outs)

(* ------------------------------------------------------ ml advisor agent *)

\* needle in text, on sequences of characters.
Contains(text, needle) ==
    \E i \in 0..(Len(text) - Len(needle)) : SubSeq(text, i + 1, i + Len(needle)) = needle

\* The labels the use-case detector returns in the modelled runs, as
\* sequences of characters.
BinaryClassification ==
    <<"B", "i", "n", "a", "r", "y", " ", "C", "l", "a", "s", "s", "i", "f", "i", "c", "a", "t", "i", "o", "n">>

Segmentation ==
    <<"S", "e", "g", "m", "e", "n", "t", "a", "t", "i", "o", "n">>

UseCaseLabels == {BinaryClassification}

\* The label the agent uses when the detector call raised.
UnableToDetect ==
    <<"U", "n", "a", "b", "l", "e", " ", "t", "o", " ", "d", "e", "t", "e", "c", "t">>

\* The dispatch on the label as given, without lower-casing it.
GetUseCaseInstructionsCaseSensitive(use_case) ==
    IF Contains(use_case, <<"c", "l", "a", "s", "s", "i", "f", "i", "c", "a", "t", "i", "o", "n">>)
    THEN <<"base", "**Classification Focus:**">>
    ELSE IF Contains(use_case, <<"r", "e", "g", "r", "e", "s", "s", "i", "o", "n">>)
    THEN <<"base", "**Regression Focus:**">>
    ELSE IF Contains(use_case, <<"c", "l", "u", "s", "t", "e", "r", "i", "n", "g">>)
    THEN <<"base", "**Clustering Focus:**">>
    ELSE <<"base">>

\* MLAdvisorAgent._get_use_case_instructions: the base instructions, with
\* the focus paragraph of the first keyword the lower-cased label contains.
GetUseCaseInstructions(use_case) ==
    IF Contains(Lower(use_case), <<"c", "l", "a", "s", "s", "i", "f", "i", "c", "a", "t", "i", "o", "n">>)
    THEN <<"base", "**Classification Focus:**">>
    ELSE IF Contains(Lower(use_case), <<"r", "e", "g", "r", "e", "s", "s", "i", "o", "n">>)
    THEN <<"base", "**Regression Focus:**">>
    ELSE IF Contains(Lower(use_case), <<"c", "l", "u", "s", "t", "e", "r", "i", "n", "g">>)
    THEN <<"base", "**Clustering Focus:**">>
    ELSE <<"base">>

\* The ml_use_case part with a fallback that leaves out the score.
MLUseCaseNoScore(out, label) ==
    IF out = GenOk
    THEN [detected_use_case    |-> label,
          target_variable      |-> Generated("target_variable"),
          target_reasoning     |-> Generated("target_reasoning"),
          suitability_score    |-> Generated("suitability_score"),
          alternative_use_case |-> Generated("alternative_use_case")]
    ELSE [detected_use_case    |-> UnableToDetect,
          target_variable      |-> T("Unknown"),
          target_reasoning     |-> <<"Error: ", out>>,
          alternative_use_case |-> T("N/A")]

\* The ml_use_case part of the result: the detector's fields, or the
\* fallback values when its call raised.
MLUseCase(out, label) ==
    IF out = GenOk
    THEN [detected_use_case    |-> label,
          target_variable      |-> Generated("target_variable"),
          target_reasoning     |-> Generated("target_reasoning"),
          suitability_score    |-> Generated("suitability_score"),
          alternative_use_case |-> Generated("alternative_use_case")]
    ELSE [detected_use_case    |-> UnableToDetect,
          target_variable      |-> T("Unknown"),
          target_reasoning     |-> <<"Error: ", out>>,
          suitability_score    |-> T("0"),
          alternative_use_case |-> T("N/A")]

\* The feature_engineering part of the result: the planner's fields, or the
\* fallback values when its call raised.
FeatureEngineering(out) ==
    IF out = GenOk
    THEN [feature_plan             |-> Generated("feature_plan"),
          training_recommendations |-> Generated("training_recommendations"),
          mlflow_setup             |-> Generated("mlflow_setup")]
    ELSE [feature_plan             |-> <<"Error generating plan: ", out>>,
          training_recommendations |-> T("Unable to generate recommendations"),
          mlflow_setup             |-> T("Unable to generate MLflow recommendations")]

\* The agent without the try block around its detector call: the call's
\* exception leaves analyze.
MLAdvisorAnalyzeNoCatch(schema_results, profile_results, quality_results, fault, out1, label, out2) ==
    IF fault # NoFault THEN Raise(fault, <<>>)
    ELSE IF out1 # GenOk THEN Raise(out1, <<GenCall("MLUseCaseDetector", <<>>, out1)>>)
    ELSE Return([ml_use_case |-> MLUseCase(out1, label),
                 feature_engineering |-> FeatureEngineering(out2)],
                <<GenCall("MLUseCaseDetector", <<>>, out1),
                  GenCall("FeatureEngineeringPlanner",
                          [target_variable       |-> MLUseCase(out1, label).target_variable,
                           ml_use_case           |-> label,
                           planning_instructions |-> GetUseCaseInstructions(label)],
                          out2)>>)

\* The agent made to give up after a failed detector call: the planner is
\* not called and its fallback values are returned.
MLAdvisorAnalyzeSkipPlanner(schema_results, profile_results, quality_results, fault, out1, label, out2) ==
    IF fault # NoFault THEN Raise(fault, <<>>)
    ELSE IF out1 # GenOk
    THEN Return([ml_use_case |-> MLUseCase(out1, label),
                 feature_engineering |-> FeatureEngineering(out1)],
                <<GenCall("MLUseCaseDetector", <<>>, out1)>>)
    ELSE Return([ml_use_case |-> MLUseCase(out1, label),
                 feature_engineering |-> FeatureEngineering(out2)],
                <<GenCall("MLUseCaseDetector", <<>>, out1),
                  GenCall("FeatureEngineeringPlanner",
                          [target_variable       |-> MLUseCase(out1, label).target_variable,
                           ml_use_case           |-> label,
                           planning_instructions |-> GetUseCaseInstructions(label)],
                          out2)>>)

\* The KeyError of the summaries analyze builds before its first try
\* block: _create_dataset_overview and _extract_key_columns subscript the
\* Schema summary and the first ten column records; the quality summary is
\* read with .get.
MLAdvisorKeyError(schema_results) ==
    FirstError(<<ReadError(schema_results, "summary",
                           <<"total_rows", "total_columns", "memory_usage_mb">>),
                 FirstMissing(schema_results, <<"columns">>)>>
               \o [j \in 1..(IF "columns" \in DOMAIN schema_results
                              THEN Len(Head_(schema_results.columns, 10)) ELSE 0) |->
                     FirstMissing(schema_results.columns[j],
                                  <<"column_name", "business_type", "null_percentage",
                                    "unique_count">>)])

\* The KeyError of _create_column_summary, called inside the second try
\* block before the planner: it subscripts the first fifteen column records,
\* each for its name, business type, pandas dtype, unique count and null
\* percentage, in that order.
ColumnSummaryKeyError(schema_results) ==
    FirstError([j \in 1..Len(Head_(schema_results.columns, 15)) |->
                   FirstMissing(schema_results.columns[j],
                                <<"column_name", "business_type", "pandas_dtype",
                                  "unique_count", "null_percentage">>)])

\* MLAdvisorAgent.analyze: the detector call, then the planner call with
\* the target variable, the use case and the instructions the first gave.
\* A KeyError of the column summary is caught by the second try block: the
\* planner is not called and the fallback values carry the error.
MLAdvisorAnalyze(schema_results, profile_results, quality_results, fault, out1, label, out2) ==
    IF fault # NoFault THEN Raise(fault, <<>>)
    ELSE IF MLAdvisorKeyError(schema_results) # NoKeyError
    THEN Raise(KeyErrorStr(MLAdvisorKeyError(schema_results)), <<>>)
    ELSE IF ColumnSummaryKeyError(schema_results) # NoKeyError
    THEN Return([ml_use_case |-> MLUseCase(out1, label),
                 feature_engineering |->
                     FeatureEngineering(KeyErrorStr(ColumnSummaryKeyError(schema_results)))],
                <<GenCall("MLUseCaseDetector", <<>>, out1)>>)
    ELSE LET use_case == MLUseCase(out1, label)
         IN  Return([ml_use_case |-> use_case,
                     feature_engineering |-> FeatureEngineering(out2)],
                    <<GenCall("MLUseCaseDetector", <<>>, out1),
                      GenCall("FeatureEngineeringPlanner",
                              [target_variable       |-> use_case.target_variable,
                               ml_use_case           |-> use_case.detected_use_case,
                               planning_instructions |->
                                   GetUseCaseInstructions(use_case.detected_use_case)],
                              out2)>>)

(* ------------------------------------------------------ deployment agent *)

\* The keys of the deployment strategy, in the order the agent writes them.
DeploymentFields ==
    <<"databricks_setup", "serving_strategy", "monitoring_plan", "data_strategy",
      "team_requirements", "implementation_roadmap", "risk_mitigation",
      "cost_estimation", "governance_framework", "success_metrics",
      "business_impact", "testing_framework", "operational_playbook",
      "enablement_plan", "future_enhancements">>

\* The set of the elements of a sequence.
Range(xs) == {xs[i] : i \in DOMAIN xs}

\* The error response with the output of the planner kept in the fields
\* after the first.
DeploymentErrorResponseMixed(error) ==
    [f \in Range(DeploymentFields) |->
        IF f = "databricks_setup" THEN <<"Error: ", error>> ELSE Generated(f)]

\* DeploymentAgent._generate_error_response
DeploymentErrorResponse(error) ==
    [f \in Range(DeploymentFields) |->
        IF f = "databricks_setup" THEN <<"Error: ", error>> ELSE T("Unable to generate")]

\* The agent with an except block that raises again instead of returning
\* the error response.
DeploymentAnalyzeReraise(schema_results, ml_recommendations, fault, out) ==
    IF fault # NoFault THEN Raise(fault, <<>>)
    ELSE IF out # GenOk
    THEN Raise(out, <<GenCall("DatabricksDeploymentPlanner", <<>>, out)>>)
    ELSE Return([f \in Range(DeploymentFields) |-> Generated(f)],
                <<GenCall("DatabricksDeploymentPlanner", <<>>, out)>>)

\* The KeyError of the inputs analyze prepares before its try block:
\* _format_ml_use_case, the two feature_engineering subscripts and
\* _format_data_summary.
DeploymentKeyError(schema_results, ml_recommendations) ==
    FirstError(<<ReadError(ml_recommendations, "ml_use_case",
                           <<"detected_use_case", "target_variable", "suitability_score">>),
                 ReadError(ml_recommendations, "feature_engineering",
                           <<"feature_plan", "training_recommendations">>),
                 ReadError(schema_results, "summary",
                           <<"total_rows", "total_columns", "memory_usage_mb">>)>>)

\* DeploymentAgent.analyze: one generation call; every field from its
\* output, or the error response when it raised.
DeploymentAnalyze(schema_results, ml_recommendations, fault, out) ==
    IF fault # NoFault THEN Raise(fault, <<>>)
    ELSE IF DeploymentKeyError(schema_results, ml_recommendations) # NoKeyError
    THEN Raise(KeyErrorStr(DeploymentKeyError(schema_results, ml_recommendations)), <<>>)
    ELSE Return(IF out = GenOk
                THEN [f \in Range(DeploymentFields) |-> Generated(f)]
                ELSE DeploymentErrorResponse(out),
                <<GenCall("DatabricksDeploymentPlanner", <<>>, out)>>)

(* ------------------------------------------ business communication agent *)

\* The keys of the business communication materials.
BusinessFields ==
    <<"executive_summary", "risk_matrix", "timeline_visual", "budget_justification",
      "stakeholder_talking_points">>

\* BusinessCommunicationAgent._generate_error_response
BusinessErrorResponse(error) ==
    [f \in Range(BusinessFields) |->
        IF f = "executive_summary" THEN <<"Error: ", error>> ELSE T("Unable to generate")]

\* The KeyError of the inputs analyze prepares before its try block:
\* _format_ml_use_case subscripts the use case; the deployment strategy is
\* read with .get.
BusinessKeyError(ml_recommendations) ==
    ReadError(ml_recommendations, "ml_use_case",
              <<"detected_use_case", "target_variable", "suitability_score">>)

\* The keys of the deployment strategy the agent reads with .get and
\* slices or passes on as text.
BusinessReads ==
    {"team_requirements", "implementation_roadmap", "cost_estimation", "risk_mitigation",
     "success_metrics"}

\* BusinessCommunicationAgent.analyze: one generation call; every field
\* from its output, or the error response when it raised.
BusinessAnalyze(ml_recommendations, deployment_strategy, fault, out) ==
    IF fault # NoFault THEN Raise(fault, <<>>)
    ELSE IF BusinessKeyError(ml_recommendations) # NoKeyError
    THEN Raise(KeyErrorStr(BusinessKeyError(ml_recommendations)), <<>>)
    ELSE Return(IF out = GenOk
                THEN [f \in Range(BusinessFields) |-> Generated(f)]
                ELSE BusinessErrorResponse(out),
                <<GenCall("BusinessCommunicationGenerator", <<>>, out)>>)

(* -------------------------------------------------------------- po agent *)

\* The KeyError of the digests generate_prd builds before its try block:
\* _format_ml_use_case and _format_feature_engineering subscript the ML
\* recommendations; every other key is read with .get.
POKeyError(ml_recommendations) ==
    FirstError(<<ReadError(ml_recommendations, "ml_use_case",
                           <<"detected_use_case", "target_variable", "suitability_score",
                             "target_reasoning">>),
                 FirstMissing(ml_recommendations, <<"feature_engineering">>)>>)

\* The keys the digests read with .get: of the feature engineering part, of
\* the deployment strategy and of the business communication materials.
POReadsFeature == {"feature_plan", "training_recommendations", "mlflow_setup"}

POReadsDeployment ==
    {"team_requirements", "implementation_roadmap", "cost_estimation", "databricks_setup",
     "monitoring_plan"}

POReadsBusiness == {"executive_summary", "budget_justification", "stakeholder_talking_points"}

\* POAgent.generate_prd: the five digests, then one generation call; the
\* document and 'success', or the failure document and 'error' when the
\* call raised.
POGeneratePrd(schema_results, quality_results, ml_recommendations, deployment_strategy, business_communication, fault, out) ==
    IF fault # NoFault THEN Raise(fault, <<>>)
    ELSE IF POKeyError(ml_recommendations) # NoKeyError
    THEN Raise(KeyErrorStr(POKeyError(ml_recommendations)), <<>>)
    ELSE Return(IF out = GenOk
                THEN [prd_document |-> Generated("prd_document"), status |-> "success"]
                ELSE [prd_document |-> <<"# PRD Generation Failed\n\nError: ", out>>,
                      status       |-> "error"],
                <<GenCall("PRDGenerator", <<>>, out)>>)

(* ------------------------------------------------------------ supervisor *)

VARIABLES
    df,          \* the dataset given to analyze_dataset
    pc,          \* the step of analyze_dataset to run next; "done" once it returned
    results,     \* the results dict analyze_dataset builds and returns
    invoked,     \* the analyze calls made, in call order, and how each ended
    generation,  \* the generation calls analyze_dataset made, in call order
    returned,    \* the dict as analyze_dataset returned it; None before
    prd_result,  \* what the last generate_prd call returned; None before
    po_invoked,  \* whether the last generate_prd call called POAgent.generate_prd
    prd_generation,  \* the generation calls the last generate_prd call made
    configured,  \* dspy_init._configured
    lock,        \* the thread holding dspy_init._lock; 0 when it is free
    settings_lm, \* dspy.settings.lm: None until a dspy.configure call has completed
    configure_calls,  \* the number of dspy.configure calls begun
    lm_pc,       \* each thread's position in get_configured_lm
    handle,      \* what get_configured_lm returned to each thread; None before
    quality_result, \* what a direct QualityAgent.analyze(df) call returned or raised; None before
    use_case,    \* the label given to _get_use_case_instructions, as a sequence of words
    instructions, \* what the _get_use_case_instructions call returned; empty before
    uploaded_file, \* the file in the uploader widget of the web page, or None
    session_state, \* st.session_state: analysis_results, uploaded_df, prd_result, last_file
    provenance   \* history: the analyses run, and which of them the stored results
                 \* and the stored PRD come from (0: none)

\* The state of dspy_init and of the threads calling it.
lm_vars == <<configured, lock, settings_lm, configure_calls, lm_pc, handle>>

\* The state of a direct _get_use_case_instructions call.
dispatch_vars == <<use_case, instructions>>

\* The state of a session of the web page.
session_vars == <<uploaded_file, session_state, provenance>>

\* The state outside the pipeline, dspy_init and the direct quality call.
aux_vars == <<dispatch_vars, session_vars>>

vars == <<df, pc, results, invoked, generation, returned, prd_result, po_invoked, prd_generation, lm_vars, quality_result, aux_vars>>

\* No _get_use_case_instructions call is under way.
NoDispatch == use_case = <<>> /\ instructions = <<>>

\* last_file before any upload: None, which no file name equals.
NoName == ""

\* app.py lines 33-40: the session state of a new session.
NewSession ==
    [analysis_results |-> None, uploaded_df |-> None, prd_result |-> None,
     last_file |-> NoName]

\* No analysis has run in the session and nothing stored comes from one.
NoProvenance == [runs |-> 0, analysis |-> 0, prd |-> 0]

\* No page of the web application is open.
NoSession ==
    uploaded_file = None /\ session_state = NewSession /\ provenance = NoProvenance

\* Nothing outside the pipeline is under way.
AuxIdle == NoDispatch /\ NoSession

\* Largest number of threads constructing a SupervisorAgent.
MaxThreads == 3

\* The threads that call get_configured_lm.
Threads == 1..MaxThreads

\* The handle the n-th dspy.configure call installs.
Lm(n) == [lm |-> n]

\* dspy_init once the first SupervisorAgent has been constructed, by thread
\* 1: its get_configured_lm call has configured dspy and returned.
Constructed ==
    /\ configured = TRUE
    /\ lock = 0
    /\ settings_lm = Lm(1)
    /\ configure_calls = 1
    /\ lm_pc = [t \in Threads |-> IF t = 1 THEN "returned" ELSE "idle"]
    /\ handle = [t \in Threads |-> IF t = 1 THEN Lm(1) ELSE None]

\* The six result fields, in stage order.
ResultFields ==
    <<"schema_analysis", "profile_analysis", "quality_analysis", "ml_recommendations",
      "deployment_strategy", "business_communication">>

\* The name a stage is given in agents_completed, in stage order.
AgentNames ==
    <<"schema_agent", "profile_agent", "quality_agent", "ml_advisor_agent",
      "deployment_agent", "business_communication_agent">>

\* The name a stage is given in its error message, in stage order.
StageLabels ==
    <<"Schema Agent", "Profile Agent", "Quality Agent", "ML Advisor Agent",
      "Deployment Agent", "Business Communication Agent">>

\* The dict analyze_dataset starts from.
InitialResults ==
    [status                 |-> "in_progress",
     agents_completed       |-> <<>>,
     schema_analysis        |-> None,
     profile_analysis       |-> None,
     quality_analysis       |-> None,
     ml_recommendations     |-> None,
     deployment_strategy    |-> None,
     business_communication |-> None,
     errors                 |-> <<>>]

\* f"{label} failed: {str(e)}"
ErrorMsg(label, message) == <<label, " failed: ", message>>

\* The try/except around stage k with an except block that only logs.
StageDoneLogOnly(r, k, call) ==
    IF call.raised
    THEN r
    ELSE [r EXCEPT ![ResultFields[k]] = call.value,
                   !.agents_completed = Append(@, AgentNames[k])]

\* The try/except around stage k with the agent's name appended in the
\* except branch too.
StageDoneNameAlways(r, k, call) ==
    IF call.raised
    THEN [r EXCEPT !.errors = Append(@, ErrorMsg(StageLabels[k], call.message)),
                   !.agents_completed = Append(@, AgentNames[k])]
    ELSE [r EXCEPT ![ResultFields[k]] = call.value,
                   !.agents_completed = Append(@, AgentNames[k])]

\* The try/except around stage k with the agent's name put at the front of
\* agents_completed.
StageDonePrepend(r, k, call) ==
    IF call.raised
    THEN [r EXCEPT !.errors = Append(@, ErrorMsg(StageLabels[k], call.message))]
    ELSE [r EXCEPT ![ResultFields[k]] = call.value,
                   !.agents_completed = <<AgentNames[k]>> \o @]

\* One try/except of analyze_dataset around stage k, whose call ended as
\* call: the result is stored and the agent's name appended, or the error
\* message is appended.
StageDone(r, k, call) ==
    IF call.raised
    THEN [r EXCEPT !.errors = Append(@, ErrorMsg(StageLabels[k], call.message))]
    ELSE [r EXCEPT ![ResultFields[k]] = call.value,
                   !.agents_completed = Append(@, AgentNames[k])]

\* Step 4 with the quality result left out of its condition.
MLAdvisorGateNoQuality(r) == Truthy(r.schema_analysis) /\ Truthy(r.profile_analysis)

\* Step 6 with the deployment result left out of its condition.
BusinessGateOnlyML(r) == Truthy(r.ml_recommendations)

\* The status update with its two branches exchanged.
FinalStatusSwapped(errors) == IF Len(errors) = 0 THEN "partial_failure" ELSE "completed"

\* Step 5 without its condition.
DeploymentGateAlways(r) == TRUE

\* The conditions of steps 4, 5 and 6.
MLAdvisorGate(r) ==
    Truthy(r.schema_analysis) /\ Truthy(r.profile_analysis) /\ Truthy(r.quality_analysis)

DeploymentGate(r) == Truthy(r.ml_recommendations)

BusinessGate(r) == Truthy(r.ml_recommendations) /\ Truthy(r.deployment_strategy)

\* The status update without its else branch.
FinalStatusCompleted(errors) == "completed"

\* The status analyze_dataset sets before it returns.
FinalStatus(errors) == IF Len(errors) = 0 THEN "completed" ELSE "partial_failure"

\* SupervisorAgent.get_summary(results): for a completed run the overview
\* read from the Schema summary and the Quality summary, which raises when
\* either result is None; otherwise the error strings.
GetSummary(r) ==
    IF r.status = "completed"
    THEN IF r.schema_analysis = None THEN Raise("'NoneType' object is not subscriptable", <<>>)
         ELSE IF r.quality_analysis = None
         THEN Raise("'NoneType' object has no attribute 'get'", <<>>)
         ELSE Return([total_rows       |-> r.schema_analysis.summary.total_rows,
                      total_columns    |-> r.schema_analysis.summary.total_columns,
                      memory_usage_mb  |-> r.schema_analysis.summary.memory_usage_mb,
                      total_issues     |-> r.quality_analysis.summary.total_issues,
                      critical         |-> r.quality_analysis.summary.critical,
                      warnings         |-> r.quality_analysis.summary.warnings,
                      agents_completed |-> r.agents_completed], <<>>)
    ELSE Return([errors |-> r.errors], <<>>)

\* The exception of a stage's unguarded part: none, or one of Faults.
FaultInputs == {NoFault} \cup Faults

Init ==
    /\ df \in Frames
    /\ pc = "schema"
    /\ results = InitialResults
    /\ invoked = <<>>
    /\ generation = <<>>
    /\ returned = None
    /\ prd_result = None
    /\ po_invoked = FALSE
    /\ prd_generation = <<>>
    /\ quality_result = None
    /\ AuxIdle
    /\ Constructed

\* The bookkeeping of a stage call: the agent is called, its generation
\* calls are made, the supervisor records the outcome and moves on.
Called(k, call, next) ==
    /\ results' = StageDone(results, k, call)
    /\ invoked' = Append(invoked, [agent   |-> AgentNames[k],
                                    raised  |-> call.raised,
                                    message |-> call.message])
    /\ generation' = generation \o call.calls
    /\ pc' = next
    /\ UNCHANGED <<df, returned, prd_result, po_invoked, prd_generation, lm_vars, quality_result, aux_vars>>

\* A gated step whose condition is false: nothing is called.
Skipped(next) ==
    /\ pc' = next
    /\ UNCHANGED <<df, results, invoked, generation, returned, prd_result, po_invoked,
                   prd_generation, lm_vars, quality_result, aux_vars>>

\* Step 1: Schema Analysis
RunSchemaAgent ==
    /\ pc = "schema"
    /\ \E fault \in FaultInputs, outs \in [1..Len(df.columns) -> GenOutcomes] :
          Called(1, SchemaAnalyze(df, fault, outs), "profile")

\* Step 2 made to depend on step 1: Profile runs only if Schema returned.
RunProfileAgentAfterSchema ==
    /\ pc = "profile"
    /\ IF Truthy(results.schema_analysis)
       THEN \E fault \in FaultInputs, outs \in [1..ProfileCalls(df) -> GenOutcomes] :
               Called(2, ProfileAnalyze(df, fault, outs), "quality")
       ELSE Skipped("quality")

\* Step 2: Statistical Profiling
RunProfileAgent ==
    /\ pc = "profile"
    /\ \E fault \in FaultInputs, outs \in [1..ProfileCalls(df) -> GenOutcomes] :
          Called(2, ProfileAnalyze(df, fault, outs), "quality")

\* Step 3 without its try/except: an exception of QualityAgent.analyze
\* leaves analyze_dataset, which returns nothing.
RunQualityAgentUncaught ==
    /\ pc = "quality"
    /\ \E fault \in FaultInputs, outs \in [1..QualityCalls(df) -> GenOutcomes] :
          LET call == QualityAnalyze(df, fault, outs)
          IN  IF call.raised
              THEN /\ pc' = "raised"
                   /\ invoked' = Append(invoked, [agent   |-> AgentNames[3],
                                                   raised  |-> TRUE,
                                                   message |-> call.message])
                   /\ generation' = generation \o call.calls
                   /\ UNCHANGED <<df, results, returned, prd_result, po_invoked,
                                  prd_generation, lm_vars, quality_result, aux_vars>>
              ELSE Called(3, call, "ml_advisor")

\* Step 3: Quality Checks
RunQualityAgent ==
    /\ pc = "quality"
    /\ \E fault \in FaultInputs, outs \in [1..QualityCalls(df) -> GenOutcomes] :
          Called(3, QualityAnalyze(df, fault, outs), "ml_advisor")

\* Step 4: ML Advisor
RunMLAdvisorAgent ==
    /\ pc = "ml_advisor"
    /\ IF MLAdvisorGate(results)
       THEN \E fault \in FaultInputs, out1 \in GenOutcomes, label \in UseCaseLabels,
               out2 \in GenOutcomes :
               Called(4, MLAdvisorAnalyze(results.schema_analysis, results.profile_analysis,
                                          results.quality_analysis, fault, out1, label, out2),
                      "deployment")
       ELSE Skipped("deployment")

\* Step 5: Deployment Strategy
RunDeploymentAgent ==
    /\ pc = "deployment"
    /\ IF DeploymentGate(results)
       THEN \E fault \in FaultInputs, out \in GenOutcomes :
               Called(5, DeploymentAnalyze(results.schema_analysis,
                                           results.ml_recommendations, fault, out),
                      "business")
       ELSE Skipped("business")

\* Step 6: Business Communication Materials
RunBusinessCommunicationAgent ==
    /\ pc = "business"
    /\ IF BusinessGate(results)
       THEN \E fault \in FaultInputs, out \in GenOutcomes :
               Called(6, BusinessAnalyze(results.ml_recommendations,
                                         results.deployment_strategy, fault, out),
                      "status")
       ELSE Skipped("status")

\* Update status, and return results.
UpdateStatus ==
    /\ pc = "status"
    /\ results' = [results EXCEPT !.status = FinalStatus(results.errors)]
    /\ returned' = results'
    /\ pc' = "done"
    /\ UNCHANGED <<df, invoked, generation, prd_result, po_invoked, prd_generation, lm_vars, quality_result, aux_vars>>

\* The condition of generate_prd with the profile result required too.
PrdGateAllSix(r) == \A k \in DOMAIN ResultFields : Truthy(r[ResultFields[k]])

\* The condition under which generate_prd calls the PO agent.
PrdGate(r) ==
    /\ Truthy(r.schema_analysis)
    /\ Truthy(r.quality_analysis)
    /\ Truthy(r.ml_recommendations)
    /\ Truthy(r.deployment_strategy)
    /\ Truthy(r.business_communication)

\* The document generate_prd returns without calling the PO agent.
InsufficientData ==
    [prd_document |-> T("# Error\n\nInsufficient data to generate PRD. Please complete all analysis steps first."),
     status       |-> "error"]

\* What generate_prd returns when the PO agent's call ended as call.
PrdReturn(call) ==
    IF call.raised
    THEN [prd_document |-> <<"# Error\n\n", "PRD generation failed: ", call.message>>,
          status       |-> "error"]
    ELSE call.value

\* generate_prd made to record its outcome in the dict it is given.
GeneratePrdWritesStatus ==
    /\ pc = "done"
    /\ IF ~(\A k \in {1, 3, 4, 5, 6} : Truthy(results[ResultFields[k]]))
       THEN /\ prd_result' = InsufficientData
            /\ prd_generation' = <<>>
            /\ po_invoked' = FALSE
       ELSE \E fault \in FaultInputs, out \in GenOutcomes :
               LET call == POGeneratePrd(results.schema_analysis, results.quality_analysis,
                                         results.ml_recommendations,
                                         results.deployment_strategy,
                                         results.business_communication, fault, out)
               IN  /\ prd_result' = PrdReturn(call)
                   /\ po_invoked' = TRUE
                   /\ prd_generation' = call.calls
    /\ results' = [results EXCEPT !.status = prd_result'.status]
    /\ UNCHANGED <<df, pc, invoked, generation, returned, lm_vars, quality_result, aux_vars>>

\* SupervisorAgent.generate_prd(results) on the dict analyze_dataset
\* returned, any number of times: it reads the dict and returns a document.
GeneratePrd ==
    /\ pc = "done"
    /\ IF ~PrdGate(results)
       THEN /\ prd_result' = InsufficientData
            /\ prd_generation' = <<>>
            /\ po_invoked' = FALSE
       ELSE \E fault \in FaultInputs, out \in GenOutcomes :
               LET call == POGeneratePrd(results.schema_analysis, results.quality_analysis,
                                         results.ml_recommendations,
                                         results.deployment_strategy,
                                         results.business_communication, fault, out)
               IN  /\ prd_result' = PrdReturn(call)
                   /\ po_invoked' = TRUE
                   /\ prd_generation' = call.calls
    /\ UNCHANGED <<df, pc, results, invoked, generation, returned, lm_vars, quality_result, aux_vars>>

Next ==
    \/ RunSchemaAgent
    \/ RunProfileAgent
    \/ RunQualityAgent
    \/ RunMLAdvisorAgent
    \/ RunDeploymentAgent
    \/ RunBusinessCommunicationAgent
    \/ UpdateStatus
    \/ GeneratePrd

Spec == Init /\ [][Next]_vars

\* One run of analyze_dataset: its steps, which run one after the other to
\* completion in the calling thread.
AnalyzeDataset ==
    \/ RunSchemaAgent
    \/ RunProfileAgent
    \/ RunQualityAgent
    \/ RunMLAdvisorAgent
    \/ RunDeploymentAgent
    \/ RunBusinessCommunicationAgent
    \/ UpdateStatus

\* The pipeline under its scheduling: a started run is not abandoned, and a
\* generate_prd call happens only when the user asks for one.
FairSpec == Init /\ [][Next]_vars /\ WF_vars(AnalyzeDataset)

(* ------------------------------------- generate_prd on any results dict *)

\* The dataset the given stage records are computed from.
SampleFrame ==
    [nrows   |-> 1,
     columns |-> <<[column_name |-> ColumnNames[1], dtype |-> "float64",
                    cells |-> <<NumNull>>]>>]

\* What a results field can hold when generate_prd is called: nothing, or
\* the record its stage returns with its generation calls ended as out.
RECURSIVE GivenField(_, _)
GivenField(k, out) ==
    CASE out = NoFault -> None
      [] k = 1 -> SchemaAnalyze(SampleFrame, NoFault, <<out>>).value
      [] k = 2 -> ProfileAnalyze(SampleFrame, NoFault, <<out>>).value
      [] k = 3 -> QualityAnalyze(SampleFrame, NoFault, <<out>>).value
      [] k = 4 -> MLAdvisorAnalyze(GivenField(1, out), GivenField(2, out),
                                   GivenField(3, out), NoFault, out, BinaryClassification,
                                   out).value
      [] k = 5 -> DeploymentAnalyze(GivenField(1, out), GivenField(4, out), NoFault,
                                    out).value
      [] k = 6 -> BusinessAnalyze(GivenField(4, out), GivenField(5, out), NoFault,
                                  out).value

\* The dicts generate_prd is given: every combination of absent and present
\* fields, with either final status.
GivenResults ==
    {[status                 |-> st,
      agents_completed       |-> <<>>,
      schema_analysis        |-> GivenField(1, f[1]),
      profile_analysis       |-> GivenField(2, f[2]),
      quality_analysis       |-> GivenField(3, f[3]),
      ml_recommendations     |-> GivenField(4, f[4]),
      deployment_strategy    |-> GivenField(5, f[5]),
      business_communication |-> GivenField(6, f[6]),
      errors                 |-> <<>>] :
        st \in {"completed", "partial_failure"},
        f \in [1..6 -> {NoFault} \cup GenOutcomes]}

PrdInit ==
    /\ df = SampleFrame
    /\ pc = "done"
    /\ results \in GivenResults
    /\ invoked = <<>>
    /\ generation = <<>>
    /\ returned = results
    /\ prd_result = None
    /\ po_invoked = FALSE
    /\ prd_generation = <<>>
    /\ quality_result = None
    /\ AuxIdle
    /\ Constructed

\* generate_prd called, any number of times, on any given dict.
PrdSpec == PrdInit /\ [][GeneratePrd]_vars

(* ------------------------------------- the analyses on larger datasets *)

\* Largest number of rows of a dataset of one numeric column made of runs.
MaxRun == 20

\* Largest number of rows of a dataset of one text column with any cells.
MaxTextRows == 3

\* Largest number of distinct values of a text column of distinct values.
MaxWide == 100

\* Largest number of rows of a dataset of nulls and ones.
MaxLong == 160

\* A dataset of the given columns with n rows.
Frame(columns, n) == [nrows |-> n, columns |-> columns]

\* One float64 column: the values 1..a, then b missing cells, then c cells
\* holding 100.
RunColumn(a, b, c) ==
    [column_name |-> ColumnNames[1],
     dtype       |-> "float64",
     cells       |-> [i \in 1..(a + b + c) |->
                        IF i <= a THEN Num(i)
                        ELSE IF i <= a + b THEN NumNull ELSE Num(100)]]

RunFrames ==
    {Frame(<<RunColumn(a, b, c)>>, a + b + c) :
        <<a, b, c>> \in {t \in (0..MaxRun) \X (0..MaxRun) \X (0..MaxRun) :
                            t[1] + t[2] + t[3] <= MaxRun}}

\* One object column with up to MaxTextRows cells, each missing or one of
\* the strings "A", "a " and "B".
TextFrames ==
    UNION {{Frame(<<[column_name |-> ColumnNames[1], dtype |-> "object", cells |-> cs]>>, n) :
                cs \in [1..n -> {TxtNull, Txt(<<"A">>), Txt(<<"a", " ">>), Txt(<<"B">>)}]} :
           n \in 0..MaxTextRows}

\* The decimal digits of i, as characters.
RECURSIVE Digits(_)
Digits(i) == IF i < 10 THEN <<ToString(i)>> ELSE Digits(i \div 10) \o <<ToString(i % 10)>>

\* One object column of u distinct strings: "A", "a " and "v3", "v4", ...
WideColumn(u) ==
    [column_name |-> ColumnNames[1],
     dtype       |-> "object",
     cells       |-> [i \in 1..u |->
                        IF i = 1 THEN Txt(<<"A">>)
                        ELSE IF i = 2 THEN Txt(<<"a", " ">>)
                        ELSE Txt(<<"v">> \o Digits(i))]]

WideFrames == {Frame(<<WideColumn(u)>>, u) : u \in (MaxWide - 2)..MaxWide}

StatFrames == RunFrames \cup TextFrames \cup WideFrames

\* A constructed QualityAgent and one of the larger datasets.
QualityInit ==
    /\ df \in StatFrames
    /\ pc = "schema"
    /\ results = InitialResults
    /\ invoked = <<>>
    /\ generation = <<>>
    /\ returned = None
    /\ prd_result = None
    /\ po_invoked = FALSE
    /\ prd_generation = <<>>
    /\ quality_result = None
    /\ AuxIdle
    /\ Constructed

\* QualityAgent.analyze(df) called on the dataset: it returns its results, or
\* an unexpected exception leaves it.
AnalyzeQuality ==
    /\ quality_result = None
    /\ \E fault \in FaultInputs, outs \in [1..QualityCalls(df) -> GenOutcomes] :
          quality_result' = QualityAnalyze(df, fault, outs)
    /\ UNCHANGED <<df, pc, results, invoked, generation, returned, prd_result, po_invoked,
                   prd_generation, lm_vars, aux_vars>>

QualitySpec == QualityInit /\ [][AnalyzeQuality]_vars

\* One float64 column of n rows: k missing cells, then ones.
NullRun(n, k) ==
    Frame(<<[column_name |-> ColumnNames[1], dtype |-> "float64",
             cells |-> [i \in 1..n |-> IF i <= k THEN NumNull ELSE Num(1)]]>>, n)

LongFrames == {NullRun(n, k) : <<n, k>> \in {t \in (1..MaxLong) \X (0..MaxLong) : t[2] <= t[1]}}

\* analyze_dataset called on a dataset of nulls and ones: its Schema step.
SchemaInit ==
    /\ df \in LongFrames
    /\ pc = "schema"
    /\ results = InitialResults
    /\ invoked = <<>>
    /\ generation = <<>>
    /\ returned = None
    /\ prd_result = None
    /\ po_invoked = FALSE
    /\ prd_generation = <<>>
    /\ quality_result = None
    /\ AuxIdle
    /\ Constructed

SchemaSpec == SchemaInit /\ [][RunSchemaAgent]_vars

(* ------------------------- the first three stages on several columns *)

\* Number of columns of the datasets with several columns.
MaxStageCols == 2

\* Largest number of rows of the datasets with several columns.
MaxStageRows == 1

\* The dtype of the j-th column of a dataset with several columns: numeric
\* and text columns alternate.
StageDtype(j) == IF j % 2 = 1 THEN "float64" ELSE "object"

\* The datasets with several columns: MaxStageCols columns and up to
\* MaxStageRows rows of missing cells and values.
ColumnFrames ==
    UNION {{f \in FramesOf(MaxStageCols, n) :
               \A j \in DOMAIN f.columns : f.columns[j].dtype = StageDtype(j)} :
           n \in 0..MaxStageRows}

\* analyze_dataset called on a dataset with several columns.
ColumnsInit ==
    /\ df \in ColumnFrames
    /\ pc = "schema"
    /\ results = InitialResults
    /\ invoked = <<>>
    /\ generation = <<>>
    /\ returned = None
    /\ prd_result = None
    /\ po_invoked = FALSE
    /\ prd_generation = <<>>
    /\ quality_result = None
    /\ AuxIdle
    /\ Constructed

\* Steps 1 to 3 of analyze_dataset, the stages that read the dataset.
DataStages ==
    \/ RunSchemaAgent
    \/ RunProfileAgent
    \/ RunQualityAgent

ColumnsSpec == ColumnsInit /\ [][DataStages]_vars

(* ------------------------------- the profile of one numeric column *)

\* Largest number of rows of a dataset of one numeric column of any cells.
MaxSkewRows == 4

\* The cells of the numeric column: missing, or one of three values.
SkewCells == {NumNull, Num(0), Num(1), Num(3)}

\* The datasets of one float64 column of up to MaxSkewRows such cells.
SkewFrames ==
    {Frame(<<[column_name |-> ColumnNames[1], dtype |-> "float64", cells |-> cs]>>, n) :
        <<n, cs>> \in UNION {{<<m, c>> : c \in [1..m -> SkewCells]} : m \in 0..MaxSkewRows}}

\* analyze_dataset called on a dataset of one numeric column.
ProfileInit ==
    /\ df \in SkewFrames
    /\ pc = "schema"
    /\ results = InitialResults
    /\ invoked = <<>>
    /\ generation = <<>>
    /\ returned = None
    /\ prd_result = None
    /\ po_invoked = FALSE
    /\ prd_generation = <<>>
    /\ quality_result = None
    /\ AuxIdle
    /\ Constructed

\* Steps 1 and 2 of analyze_dataset.
SchemaThenProfile ==
    \/ RunSchemaAgent
    \/ RunProfileAgent

ProfileSpec == ProfileInit /\ [][SchemaThenProfile]_vars

(* ------------------------------ _get_use_case_instructions on any label *)

\* Largest number of words of a label.
MaxWords == 3

\* The words the labels are made of, as sequences of characters: "Binary ",
\* "Class", "ification", "REGRESSION", "clustering", "Segmentation".
WordBinary == <<"B", "i", "n", "a", "r", "y", " ">>

WordClass == <<"C", "l", "a", "s", "s">>

WordIfication == <<"i", "f", "i", "c", "a", "t", "i", "o", "n">>

WordRegression == <<"R", "E", "G", "R", "E", "S", "S", "I", "O", "N">>

WordClustering == <<"c", "l", "u", "s", "t", "e", "r", "i", "n", "g">>

WordSegmentation == <<"S", "e", "g", "m", "e", "n", "t", "a", "t", "i", "o", "n">>

Words == {WordBinary, WordClass, WordIfication, WordRegression, WordClustering, WordSegmentation}

\* The labels: up to MaxWords words.
Labels == UNION {[1..n -> Words] : n \in 0..MaxWords}

\* The string of a sequence of words.
RECURSIVE Join(_)
Join(ws) == IF ws = <<>> THEN <<>> ELSE ws[1] \o Join(Tail(ws))

\* A constructed MLAdvisorAgent and a label.
DispatchInit ==
    /\ use_case \in Labels
    /\ instructions = <<>>
    /\ df = SampleFrame
    /\ pc = "schema"
    /\ results = InitialResults
    /\ invoked = <<>>
    /\ generation = <<>>
    /\ returned = None
    /\ prd_result = None
    /\ po_invoked = FALSE
    /\ prd_generation = <<>>
    /\ quality_result = None
    /\ NoSession
    /\ Constructed

\* self._get_use_case_instructions(use_case) called and returned.
CallGetUseCaseInstructions ==
    /\ instructions = <<>>
    /\ instructions' = GetUseCaseInstructions(Join(use_case))
    /\ UNCHANGED <<use_case, df, pc, results, invoked, generation, returned, prd_result,
                   po_invoked, prd_generation, quality_result, lm_vars, session_vars>>

DispatchSpec == DispatchInit /\ [][CallGetUseCaseInstructions]_vars

(* ------------------------------------------------- the web page, app.py *)

\* Largest number of analyze clicks of a session.
MaxAnalyses == 2

\* A dataset of one numeric column and one row without missing cells.
FullFrame ==
    [nrows   |-> 1,
     columns |-> <<[column_name |-> ColumnNames[1], dtype |-> "float64",
                    cells |-> <<Num(1)>>]>>]

\* The CSV files the user has: two names, each with its dataset.
Files == {[name |-> "a.csv", df |-> SampleFrame], [name |-> "b.csv", df |-> FullFrame]}

\* What happens in one analyze_dataset call of the session: an unexpected
\* exception in at most one stage (0: in none), and the outcome of the
\* generation calls, the same for all of them.
RunInputs == [fault_at : 0..6, out : GenOutcomes]

\* The unexpected exception of stage k under the inputs in.
FaultAt(in, k) == IF in.fault_at = k THEN "unexpected error" ELSE NoFault

\* n generation calls that all end as out.
AllCalls(n, out) == [j \in 1..n |-> out]

\* Steps 4, 5 and 6 of analyze_dataset on the dict r, and its status update.
Step4(r, in) ==
    IF MLAdvisorGate(r)
    THEN StageDone(r, 4, MLAdvisorAnalyze(r.schema_analysis, r.profile_analysis,
                                          r.quality_analysis, FaultAt(in, 4), in.out,
                                          BinaryClassification, in.out))
    ELSE r

Step5(r, in) ==
    IF DeploymentGate(r)
    THEN StageDone(r, 5, DeploymentAnalyze(r.schema_analysis, r.ml_recommendations,
                                           FaultAt(in, 5), in.out))
    ELSE r

Step6(r, in) ==
    IF BusinessGate(r)
    THEN StageDone(r, 6, BusinessAnalyze(r.ml_recommendations, r.deployment_strategy,
                                         FaultAt(in, 6), in.out))
    ELSE r

SetStatus(r) == [r EXCEPT !.status = FinalStatus(r.errors)]

\* Steps 1, 2 and 3 of analyze_dataset on the dataset.
Step1(data, in) ==
    StageDone(InitialResults, 1,
              SchemaAnalyze(data, FaultAt(in, 1), AllCalls(Len(data.columns), in.out)))

Step2(r, data, in) ==
    StageDone(r, 2, ProfileAnalyze(data, FaultAt(in, 2), AllCalls(ProfileCalls(data), in.out)))

Step3(r, data, in) ==
    StageDone(r, 3, QualityAnalyze(data, FaultAt(in, 3), AllCalls(QualityCalls(data), in.out)))

\* supervisor.analyze_dataset(df): the dict it returns under the inputs in.
AnalyzeDatasetReturns(data, in) ==
    SetStatus(Step6(Step5(Step4(Step3(Step2(Step1(data, in), data, in), data, in),
                                in), in), in))

\* supervisor.generate_prd(r): the documents it can return.
GeneratePrdReturns(r) ==
    IF ~PrdGate(r) THEN {InsufficientData}
    ELSE {PrdReturn(POGeneratePrd(r.schema_analysis, r.quality_analysis,
                                  r.ml_recommendations, r.deployment_strategy,
                                  r.business_communication, fault, out)) :
             fault \in FaultInputs, out \in GenOutcomes}

\* A new session: the page is open, nothing is uploaded, and the module has
\* constructed its SupervisorAgent.
SessionInit ==
    /\ uploaded_file = None
    /\ session_state = NewSession
    /\ provenance = NoProvenance
    /\ NoDispatch
    /\ df = SampleFrame
    /\ pc = "schema"
    /\ results = InitialResults
    /\ invoked = <<>>
    /\ generation = <<>>
    /\ returned = None
    /\ prd_result = None
    /\ po_invoked = FALSE
    /\ prd_generation = <<>>
    /\ quality_result = None
    /\ Constructed

\* Lines 60-70 of a script run with a file in the uploader, run to the
\* end: the session state after the new-file reset and the load of the CSV.
Loaded(state, file) ==
    IF state.last_file # file.name
    THEN [state EXCEPT !.last_file = file.name, !.analysis_results = None,
                       !.prd_result = None, !.uploaded_df = file.df]
    ELSE [state EXCEPT !.uploaded_df = file.df]

\* The provenance after lines 60-66: the reset forgets both origins.
Reset(state, file, prov) ==
    IF state.last_file # file.name THEN [prov EXCEPT !.analysis = 0, !.prd = 0] ELSE prov

\* One point of a script run: the session state and the history there.
At(state, prov) == [state |-> state, prov |-> prov]

\* Streamlit stops a script run at one of its Streamlit calls when a new
\* run has been requested, and every read and write of st.session_state is
\* such a call. The points of lines 62-70 at which a run can end: the
\* session as the run found it, then the session after each write in turn,
\* of last_file (63), analysis_results (64) and prd_result (65) for a new
\* file, and of uploaded_df (70).
HeaderPoints(state, prov, file) ==
    IF state.last_file # file.name
    THEN <<At(state, prov),
           At([state EXCEPT !.last_file = file.name], prov),
           At([state EXCEPT !.last_file = file.name, !.analysis_results = None],
              [prov EXCEPT !.analysis = 0]),
           At([state EXCEPT !.last_file = file.name, !.analysis_results = None,
                            !.prd_result = None],
              Reset(state, file, prov)),
           At(Loaded(state, file), Reset(state, file, prov))>>
    ELSE <<At(state, prov), At(Loaded(state, file), prov)>>

\* The points of lines 90-96 of a run with the analyze button clicked:
\* analyze_dataset has returned and the run is stopped at the write of its
\* results, or the results are stored.
AnalyzePoints(state, prov, results_) ==
    <<At(state, [prov EXCEPT !.runs = @ + 1]),
      At([state EXCEPT !.analysis_results = results_],
         [prov EXCEPT !.runs = @ + 1, !.analysis = prov.runs + 1])>>

\* The point of lines 420-425 of a run with Generate PRD clicked: the
\* document generate_prd returned is stored. A run stopped at that write
\* leaves the session as the load left it.
PrdPoints(state, prov, doc) ==
    <<At([state EXCEPT !.prd_result = doc], [prov EXCEPT !.prd = prov.analysis])>>

\* The display of the stored results raises before it reaches the PRD
\* section: the ML section reads, at line 279, the local `profile` that only
\* the profile section binds, at line 170. The except block of line 453
\* then ends the script run.
DisplayRaises(r) == Truthy(r.ml_recommendations) /\ ~Truthy(r.profile_analysis)

\* The PRD section is rendered for the stored results: the display before
\* it did not raise, the deployment section that encloses it is shown (line
\* 299) and the condition of line 413 holds.
PrdSection(r) ==
    /\ ~DisplayRaises(r)
    /\ Truthy(r.deployment_strategy)
    /\ Truthy(r.business_communication)
    /\ r.status = "completed"

\* A script run with this file in the uploader renders the Generate PRD
\* button: after the reset and the load, results are stored and the PRD
\* section is rendered. A click on a button that the run it starts does not
\* render starts a run with nothing clicked.
PrdButtonShown ==
    /\ uploaded_file # None
    /\ Loaded(session_state, uploaded_file).analysis_results # None
    /\ PrdSection(Loaded(session_state, uploaded_file).analysis_results)

\* The variables of the pipeline, dspy_init and the direct calls, which a
\* script run of the page leaves alone.
page_unchanged == <<df, pc, results, invoked, generation, returned, prd_result, po_invoked, prd_generation, lm_vars, quality_result, dispatch_vars>>

\* The script run ends at one of the points: at the last when it runs to
\* its end, at an earlier one when it is stopped for the next run.
EndsAt(points) ==
    \E i \in DOMAIN points :
        /\ session_state' = points[i].state
        /\ provenance' = points[i].prov

\* The user puts a file into the uploader; the script runs with no button
\* clicked.
Upload ==
    /\ \E file \in Files :
          /\ uploaded_file # file
          /\ uploaded_file' = file
          /\ EndsAt(HeaderPoints(session_state, provenance, file))
    /\ UNCHANGED page_unchanged

\* The user removes the file from the uploader; the script runs its else
\* branch, which shows the getting-started text and writes nothing.
RemoveFile ==
    /\ uploaded_file # None
    /\ uploaded_file' = None
    /\ UNCHANGED <<session_state, provenance>>
    /\ UNCHANGED page_unchanged

\* The script runs again with the file that is in the uploader and no
\* button clicked: the user asked for a rerun, or clicked a button that the
\* run does not render. Without a file the run writes nothing.
Rerun ==
    /\ uploaded_file # None
    /\ EndsAt(HeaderPoints(session_state, provenance, uploaded_file))
    /\ UNCHANGED uploaded_file
    /\ UNCHANGED page_unchanged

\* The user clicks the analyze button, which is shown when a file is in the
\* uploader: the script runs, loads the file again, calls analyze_dataset
\* and stores what it returns (lines 90-96).
ClickAnalyze ==
    /\ uploaded_file # None
    /\ provenance.runs < MaxAnalyses
    /\ \E in \in RunInputs :
          EndsAt(HeaderPoints(session_state, provenance, uploaded_file)
                 \o AnalyzePoints(Loaded(session_state, uploaded_file),
                                  Reset(session_state, uploaded_file, provenance),
                                  AnalyzeDatasetReturns(uploaded_file.df, in)))
    /\ UNCHANGED uploaded_file
    /\ UNCHANGED page_unchanged

\* The user clicks Generate PRD, which is shown in the PRD section: the
\* script runs, calls generate_prd on the stored results and stores what it
\* returns (lines 420-425).
ClickGeneratePrd ==
    /\ PrdButtonShown
    /\ \E doc \in GeneratePrdReturns(Loaded(session_state, uploaded_file).analysis_results) :
          EndsAt(HeaderPoints(session_state, provenance, uploaded_file)
                 \o PrdPoints(Loaded(session_state, uploaded_file),
                              Reset(session_state, uploaded_file, provenance), doc))
    /\ UNCHANGED uploaded_file
    /\ UNCHANGED page_unchanged

SessionNext ==
    \/ Upload
    \/ RemoveFile
    \/ Rerun
    \/ ClickAnalyze
    \/ ClickGeneratePrd

SessionSpec == SessionInit /\ [][SessionNext]_vars

(* ------------------------------------------------------------- dspy_init *)

\* The variables of a pipeline run, which get_configured_lm leaves alone.
run_vars == <<df, pc, results, invoked, generation, returned, prd_result, po_invoked, prd_generation, quality_result, aux_vars>>

\* A thread moves to another line of get_configured_lm.
Goto(t, line) == lm_pc' = [lm_pc EXCEPT ![t] = line]

\* SupervisorAgent.__init__ in thread t calls get_configured_lm().
CallGetConfiguredLm(t) ==
    /\ lm_pc[t] = "idle"
    /\ Goto(t, "check")
    /\ UNCHANGED <<configured, lock, settings_lm, configure_calls, handle, run_vars>>

\* if not _configured: (the check outside the lock)
FirstCheck(t) ==
    /\ lm_pc[t] = "check"
    /\ Goto(t, IF ~configured THEN "acquire" ELSE "return")
    /\ UNCHANGED <<configured, lock, settings_lm, configure_calls, handle, run_vars>>

\* with _lock: the thread blocks until the lock is free and takes it.
Acquire(t) ==
    /\ lm_pc[t] = "acquire"
    /\ lock = 0
    /\ lock' = t
    /\ Goto(t, "locked_check")
    /\ UNCHANGED <<configured, settings_lm, configure_calls, handle, run_vars>>

\* The function without its second check: whoever gets the lock configures.
LockedCheckAlways(t) ==
    /\ lm_pc[t] = "locked_check"
    /\ Goto(t, "configure")
    /\ UNCHANGED <<configured, lock, settings_lm, configure_calls, handle, run_vars>>

\* if not _configured: (the check under the lock)
LockedCheck(t) ==
    /\ lm_pc[t] = "locked_check"
    /\ Goto(t, IF ~configured THEN "configure" ELSE "release")
    /\ UNCHANGED <<configured, lock, settings_lm, configure_calls, handle, run_vars>>

\* dspy.configure(lm=dspy.LM(...)) is entered ...
BeginConfigure(t) ==
    /\ lm_pc[t] = "configure"
    /\ configure_calls' = configure_calls + 1
    /\ Goto(t, "configuring")
    /\ UNCHANGED <<configured, lock, settings_lm, handle, run_vars>>

\* ... and completes: dspy.settings.lm is the new handle.
EndConfigure(t) ==
    /\ lm_pc[t] = "configuring"
    /\ settings_lm' = Lm(configure_calls)
    /\ Goto(t, "set")
    /\ UNCHANGED <<configured, lock, configure_calls, handle, run_vars>>

\* _configured = True
SetConfigured(t) ==
    /\ lm_pc[t] = "set"
    /\ configured' = TRUE
    /\ Goto(t, "release")
    /\ UNCHANGED <<lock, settings_lm, configure_calls, handle, run_vars>>

\* The end of the with block releases the lock.
Release(t) ==
    /\ lm_pc[t] = "release"
    /\ lock' = 0
    /\ Goto(t, "return")
    /\ UNCHANGED <<configured, settings_lm, configure_calls, handle, run_vars>>

\* return dspy.settings.lm
ReturnLm(t) ==
    /\ lm_pc[t] = "return"
    /\ handle' = [handle EXCEPT ![t] = settings_lm]
    /\ Goto(t, "returned")
    /\ UNCHANGED <<configured, lock, settings_lm, configure_calls, run_vars>>

\* The module as imported: nothing configured, the lock free, no thread in
\* the function; no pipeline run has started.
LmInit ==
    /\ configured = FALSE
    /\ lock = 0
    /\ settings_lm = None
    /\ configure_calls = 0
    /\ lm_pc = [t \in Threads |-> "idle"]
    /\ handle = [t \in Threads |-> None]
    /\ df = SampleFrame
    /\ pc = "schema"
    /\ results = InitialResults
    /\ invoked = <<>>
    /\ generation = <<>>
    /\ returned = None
    /\ prd_result = None
    /\ po_invoked = FALSE
    /\ prd_generation = <<>>
    /\ quality_result = None
    /\ AuxIdle

LmNext ==
    \E t \in Threads :
        \/ CallGetConfiguredLm(t)
        \/ FirstCheck(t)
        \/ Acquire(t)
        \/ LockedCheck(t)
        \/ BeginConfigure(t)
        \/ EndConfigure(t)
        \/ SetConfigured(t)
        \/ Release(t)
        \/ ReturnLm(t)

\* Threads constructing SupervisorAgents, each calling get_configured_lm
\* once, in any interleaving.
LmSpec == LmInit /\ [][LmNext]_vars

(* ---------------------------------------------------------------- claims *)

\* The steps of analyze_dataset, in program order; stage k runs at Steps[k].
Steps ==
    <<"schema", "profile", "quality", "ml_advisor", "deployment", "business", "status",
      "done">>

\* The position of a step in program order.
StepIndex(step) == CHOOSE n \in DOMAIN Steps : Steps[n] = step

\* The stage an agent name belongs to.
StageIndex(agent) == CHOOSE k \in DOMAIN AgentNames : AgentNames[k] = agent

\* The calls of stage k's analyze made so far.
Calls(k) == {i \in DOMAIN invoked : invoked[i].agent = AgentNames[k]}

WasInvoked(k) == Calls(k) # {}

\* Stage k's analyze was called and raised.
HasRaised(k) == \E i \in Calls(k) : invoked[i].raised

\* Stage k's result field is present.
Present(k) == results[ResultFields[k]] # None

\* Stage k's name is in agents_completed.
Completed(k) ==
    \E i \in DOMAIN results.agents_completed : results.agents_completed[i] = AgentNames[k]

\* The error strings of stage k in errors.
ErrorsOf(k) == {i \in DOMAIN results.errors : results.errors[i][1] = StageLabels[k]}

\* C1: the ML Advisor is called only if Schema, Profile and Quality all
\* produced a result; once any of the three has raised, ML Advisor,
\* Deployment and Business Communication are never called, are not in
\* agents_completed, their result fields stay absent, and the run ends with
\* status partial_failure.
C1_MLAdvisorGating ==
    /\ WasInvoked(4) => Present(1) /\ Present(2) /\ Present(3)
    /\ (HasRaised(1) \/ HasRaised(2) \/ HasRaised(3)) =>
          /\ \A k \in 4..6 : ~WasInvoked(k) /\ ~Completed(k) /\ ~Present(k)
          /\ pc = "done" => /\ results.status = "partial_failure"
                            /\ returned.status = "partial_failure"

\* A run has ended in which Schema raised and Profile and Quality returned.
C1_Witness == pc = "done" /\ HasRaised(1) /\ Present(2) /\ Present(3)

\* C2: Deployment is called only if the ML Advisor produced a result, and
\* Business Communication only if the ML Advisor and Deployment both did; a
\* raise of the ML Advisor skips both, a raise of Deployment skips Business
\* Communication.
C2_DownstreamGating ==
    /\ WasInvoked(5) => Present(4)
    /\ WasInvoked(6) => Present(4) /\ Present(5)
    /\ HasRaised(4) => ~WasInvoked(5) /\ ~WasInvoked(6)
    /\ HasRaised(5) => ~WasInvoked(6)

\* A run has ended in which the ML Advisor returned and Deployment raised.
C2_Witness == pc = "done" /\ Present(4) /\ HasRaised(5)

\* C3: the status analyze_dataset returns is 'completed' exactly when errors
\* is empty and 'partial_failure' exactly when it is not; it is never
\* 'in_progress' or anything else.
C3_FinalStatus ==
    pc = "done" =>
        /\ returned.status \in {"completed", "partial_failure"}
        /\ returned.status = "completed" <=> Len(returned.errors) = 0
        /\ returned.status = "partial_failure" <=> Len(returned.errors) > 0

\* A run has returned with two error strings.
C3_Witness == pc = "done" /\ Len(returned.errors) = 2

\* The stage a generation call site belongs to.
SiteStage(site) ==
    CASE site = "SchemaInterpreter" -> 1
      [] site = "StatisticalInsightGenerator" -> 2
      [] site = "QualityRecommender" -> 3
      [] site \in {"MLUseCaseDetector", "FeatureEngineeringPlanner"} -> 4
      [] site = "DatabricksDeploymentPlanner" -> 5
      [] site = "BusinessCommunicationGenerator" -> 6

\* The generation calls of the run that raised.
FailedCalls == {i \in DOMAIN generation : generation[i].outcome # GenOk}

\* The call sites with a call that raised.
FailingSites == {generation[i].site : i \in FailedCalls}

\* The stages with a generation call that raised.
FailingStages == {SiteStage(site) : site \in FailingSites}

\* The stages whose analyze raised.
RaisedStages == {k \in DOMAIN AgentNames : HasRaised(k)}

\* Generation calls were made and every one of them raised.
AllGenerationFailed == generation # <<>> /\ FailedCalls = DOMAIN generation

\* The record stage k stored carries the stage's fallback values in every
\* part that comes from a generation call.
IsFallbackRecord(k, rec) ==
    CASE k = 1 ->
           /\ Len(rec.columns) = Len(df.columns)
           /\ \A j \in DOMAIN rec.columns :
                 /\ rec.columns[j].business_type = T("Unknown")
                 /\ rec.columns[j].confidence = T("low")
                 /\ rec.columns[j].recommendation = T("Review manually")
      [] k = 2 ->
           /\ Len(rec.numeric_analysis) + Len(rec.categorical_analysis) = ProfileCalls(df)
           /\ \A j \in DOMAIN rec.numeric_analysis :
                 rec.numeric_analysis[j].actionable_suggestion
                     = T("Review statistics manually")
           /\ \A j \in DOMAIN rec.categorical_analysis :
                 rec.categorical_analysis[j].actionable_suggestion
                     = T("Review distribution manually")
      [] k = 3 ->
           /\ rec.summary.total_issues = Len(rec.issues_found)
           /\ \A j \in DOMAIN rec.issues_found :
                 /\ rec.issues_found[j].recommended_action # Generated("recommended_action")
                 /\ rec.issues_found[j].code_snippet # Generated("python_code")
                 /\ rec.issues_found[j].impact # Generated("impact_description")
      [] k = 4 ->
           /\ rec.ml_use_case.detected_use_case = UnableToDetect
           /\ rec.ml_use_case.target_variable = T("Unknown")
           /\ rec.feature_engineering.training_recommendations
                 = T("Unable to generate recommendations")
      [] k = 5 ->
           /\ DOMAIN rec = Range(DeploymentFields)
           /\ \A f \in DOMAIN rec :
                 rec[f] = IF f = "databricks_setup"
                          THEN <<"Error: ", rec.databricks_setup[2]>>
                          ELSE T("Unable to generate")
      [] k = 6 ->
           /\ DOMAIN rec = Range(BusinessFields)
           /\ \A f \in DOMAIN rec :
                 rec[f] = IF f = "executive_summary"
                          THEN <<"Error: ", rec.executive_summary[2]>>
                          ELSE T("Unable to generate")

\* C4 as the spec states it, in the runs where nothing but generation calls
\* fails: when every generation call fails, every stage called returns a
\* record, and the run ends with status partial_failure and one error
\* string per failing call site.
C4_AsStated ==
    (pc = "done" /\ AllGenerationFailed /\ RaisedStages = {}) =>
        /\ \A k \in DOMAIN AgentNames : WasInvoked(k) => Present(k)
        /\ returned.status = "partial_failure"
        /\ Len(returned.errors) = Cardinality(FailingSites)

\* C4, amended: when every generation call fails, every stage that was
\* called and did not raise for another reason has stored a record made of
\* its fallback values, the run returns, and the failed generation calls put
\* nothing in errors: errors holds one string per stage whose analyze raised,
\* none of them a generation failure, and the status is completed when no
\* stage raised and partial_failure otherwise.
C4_GenerationFallback ==
    AllGenerationFailed =>
        /\ \A k \in DOMAIN AgentNames :
              (WasInvoked(k) /\ ~HasRaised(k)) =>
                  Present(k) /\ IsFallbackRecord(k, results[ResultFields[k]])
        /\ \A i \in DOMAIN results.errors : results.errors[i][3] \notin GenErrors
        /\ Len(results.errors) = Cardinality(RaisedStages)
        /\ pc = "done" =>
              /\ returned = results
              /\ returned.status = "completed" <=> RaisedStages = {}
              /\ returned.status = "partial_failure" <=> RaisedStages # {}

\* A run over a dataset with a column has ended with status completed, all
\* six stages called and every generation call failed.
C4_Witness ==
    /\ pc = "done"
    /\ AllGenerationFailed
    /\ FailingStages = DOMAIN AgentNames
    /\ returned.status = "completed"

\* C5: a failed generation call is recovered inside its stage.  No error
\* string and no raise of a stage carries a generation failure, errors holds
\* exactly the raises of the stages, and whether Schema raises is decided by
\* the dataset and the stage's own code, not by its calls; a stage with a
\* failed call that returned has its record stored and its name in
\* agents_completed, and the stages gated on it are called.
C5_FailureRecoveredInStage ==
    /\ \A i \in DOMAIN invoked : invoked[i].raised => invoked[i].message \notin GenErrors
    /\ \A i \in DOMAIN results.errors : results.errors[i][3] \notin GenErrors
    /\ Len(results.errors) = Cardinality(RaisedStages)
    /\ \A i \in DOMAIN invoked :
          (invoked[i].agent = AgentNames[1] /\ invoked[i].message = "division by zero") =>
              FrameLen(df) = 0 /\ Len(df.columns) > 0
    /\ \A k \in FailingStages :
          ~HasRaised(k) => Present(k) /\ Completed(k)
    /\ ({1, 2, 3} \cap RaisedStages = {} /\ StepIndex(pc) > 4) => WasInvoked(4)
    /\ (4 \in FailingStages \ RaisedStages /\ StepIndex(pc) > 5) => WasInvoked(5)
    /\ ({4, 5} \cap RaisedStages = {} /\ 5 \in FailingStages /\ StepIndex(pc) > 6) =>
          WasInvoked(6)

\* A run has ended in which a call of each stage failed, no stage raised
\* and all six are in agents_completed.
C5_Witness ==
    /\ pc = "done"
    /\ FailingStages = DOMAIN AgentNames
    /\ RaisedStages = {}
    /\ \A k \in DOMAIN AgentNames : Completed(k)
    /\ \E i \in DOMAIN generation : generation[i].outcome = GenOk

\* The last call in invoked.
LastCall(calls) == calls[Len(calls)]

\* C6: a step in which stage k's analyze raises appends exactly the string
\* '<StageName> failed: <message>' to errors, leaves the stage's result None
\* and agents_completed and every other field as they were, and moves on to
\* the next step.
C6_SupervisorCatches ==
    [][(Len(invoked') = Len(invoked) + 1 /\ LastCall(invoked').raised) =>
          LET k == StageIndex(LastCall(invoked').agent)
          IN  /\ pc = Steps[k] /\ pc' = Steps[k + 1]
              /\ results'.errors =
                    Append(results.errors,
                           <<StageLabels[k], " failed: ", LastCall(invoked').message>>)
              /\ results' = [results EXCEPT !.errors = results'.errors]
              /\ results'[ResultFields[k]] = None
              /\ results'.agents_completed = results.agents_completed]_vars

\* Quality has just raised after Schema and Profile returned: one error
\* string, the Quality Agent's, and the run is at its next step.
C6_Witness ==
    /\ pc = "ml_advisor"
    /\ HasRaised(3)
    /\ results.errors = <<<<"Quality Agent", " failed: ", "unexpected error">>>>
    /\ results.agents_completed = <<"schema_agent", "profile_agent">>

\* C7: Schema, Profile and Quality are each called exactly once in a run,
\* whatever the other two did: none before its step, one from its step on;
\* a raise of one of them is recorded in errors, once, and the run goes on to
\* its end.
C7_FirstThreeAlwaysRun ==
    /\ \A k \in 1..3 :
          /\ Cardinality(Calls(k)) = IF StepIndex(pc) > k THEN 1 ELSE 0
          /\ HasRaised(k) => Cardinality(ErrorsOf(k)) = 1
          /\ ~HasRaised(k) => ErrorsOf(k) = {}
    /\ pc \in Range(Steps)
    /\ pc = "done" => returned = results

\* A run has ended in which Schema and Profile raised and Quality was
\* called and returned.
C7_Witness ==
    /\ pc = "done"
    /\ HasRaised(1) /\ HasRaised(2)
    /\ WasInvoked(3) /\ Present(3)

\* C8: analyze_dataset terminates, whatever raises: every run reaches its
\* return, no step leaves the run anywhere but at a step of the pipeline,
\* and what is returned carries a status of completed or partial_failure and
\* an errors list with one string per stage that raised.
C8_Terminates ==
    /\ <>(pc = "done")
    /\ [](pc \in Range(Steps))
    /\ [](pc = "done" =>
            /\ returned # None
            /\ returned.status \in {"completed", "partial_failure"}
            /\ Len(returned.errors) = Cardinality(RaisedStages))

\* A run has returned in which a generation call failed in Schema and
\* Quality raised.
C8_Witness ==
    /\ pc = "done"
    /\ returned.status = "partial_failure"
    /\ HasRaised(3)
    /\ 1 \in FailingStages

\* The five results generate_prd requires are present.
FivePresent == \A k \in {1, 3, 4, 5, 6} : Present(k)

\* C9: generate_prd calls the PO agent exactly when schema_analysis,
\* quality_analysis, ml_recommendations, deployment_strategy and
\* business_communication are all present, whether or not profile_analysis
\* is; otherwise it returns the fixed 'Insufficient data' document with
\* status 'error' and makes no generation call; it always returns a document
\* and a status.
C9_PrdGate ==
    prd_result # None =>
        /\ po_invoked <=> FivePresent
        /\ ~FivePresent =>
              /\ prd_result.prd_document =
                    <<"# Error\n\nInsufficient data to generate PRD. Please complete all analysis steps first.">>
              /\ prd_result.status = "error"
              /\ prd_generation = <<>>
        /\ DOMAIN prd_result = {"prd_document", "status"}
        /\ prd_result.status \in {"success", "error"}

\* generate_prd has called the PO agent on a dict without a profile result
\* and returned its document.
C9_Witness ==
    /\ po_invoked
    /\ ~Present(2)
    /\ prd_result.status = "success"

\* C10: a generate_prd call, the first or a later one, leaves the dict
\* analyze_dataset returned as it was, calls no stage, makes no generation
\* call of the analysis and at most one of its own, and can be made again.
C10_PrdLeavesResults ==
    [][pc = "done" =>
          /\ results' = results
          /\ results' = returned'
          /\ returned' = returned
          /\ invoked' = invoked
          /\ generation' = generation
          /\ Len(prd_generation') <= 1
          /\ pc' = "done"]_vars

\* generate_prd has been called on a completed run and has made its one
\* generation call, which failed; the dict is as analyze_dataset returned it.
C10_Witness ==
    /\ pc = "done"
    /\ results.status = "completed"
    /\ po_invoked
    /\ Len(prd_generation) = 1
    /\ prd_result.status = "error"
    /\ results = returned

\* The stage an error string names.
LabelIndex(label) == CHOOSE k \in DOMAIN StageLabels : StageLabels[k] = label

\* A sequence of integers is strictly increasing.
Increasing(xs) == \A i, j \in DOMAIN xs : i < j => xs[i] < xs[j]

\* C11: the stages are called in the order Schema, Profile, Quality, ML
\* Advisor, Deployment, Business Communication, each at most once and only
\* at its own step, and the generation calls of a stage all come before
\* those of the next; agents_completed and errors each list their stages in
\* that order with no stage twice.
C11_FixedOrder ==
    /\ Increasing([i \in DOMAIN invoked |-> StageIndex(invoked[i].agent)])
    /\ \A i \in DOMAIN invoked : StageIndex(invoked[i].agent) < StepIndex(pc)
    /\ \A i, j \in DOMAIN generation :
          i < j => SiteStage(generation[i].site) <= SiteStage(generation[j].site)
    /\ \A i \in DOMAIN generation : WasInvoked(SiteStage(generation[i].site))
    /\ Increasing([i \in DOMAIN results.agents_completed |->
                      StageIndex(results.agents_completed[i])])
    /\ Increasing([i \in DOMAIN results.errors |-> LabelIndex(results.errors[i][1])])

\* A run has ended with Schema and Quality completed around a Profile that
\* raised: agents_completed skips a stage and keeps the order.
C11_Witness ==
    /\ pc = "done"
    /\ results.agents_completed = <<"schema_agent", "quality_agent">>
    /\ Len(results.errors) = 1
    /\ Len(generation) >= 2

\* The generation calls made at a call site, in call order.
CallsAt(site) == SelectSeq(generation, LAMBDA c : c.site = site)

\* The calls of a sequence about the given column or issue column.
CallsFor(calls, arg) == SelectSeq(calls, LAMBDA c : c.arg = arg)

\* The names of the columns of the dataset.
NamesOf(columns) == {columns[j].column_name : j \in DOMAIN columns}

\* C12: no generation call is made twice.  Schema and Profile call their
\* site at most once per column, and exactly once per column they report;
\* Quality makes one call per issue it reports, the j-th call for the j-th
\* issue; the ML Advisor calls the detector once and then the planner once;
\* Deployment and Business Communication call once; and the part of a
\* record that comes from a failed call holds the fallback, not the output
\* of another attempt.
C12_NoRetry ==
    /\ \A c \in NamesOf(df.columns) :
          /\ Len(CallsFor(CallsAt("SchemaInterpreter"), c)) <= 1
          /\ Len(CallsFor(CallsAt("StatisticalInsightGenerator"), c)) <= 1
    /\ Present(1) =>
          /\ Len(CallsAt("SchemaInterpreter")) = Len(results.schema_analysis.columns)
          /\ \A j \in DOMAIN results.schema_analysis.columns :
                /\ CallsAt("SchemaInterpreter")[j].arg
                      = results.schema_analysis.columns[j].column_name
                /\ CallsAt("SchemaInterpreter")[j].outcome # GenOk =>
                      results.schema_analysis.columns[j].business_type = T("Unknown")
    /\ Present(2) =>
          Len(CallsAt("StatisticalInsightGenerator"))
              = Len(results.profile_analysis.numeric_analysis)
                  + Len(results.profile_analysis.categorical_analysis)
    /\ Present(3) =>
          /\ Len(CallsAt("QualityRecommender")) = Len(results.quality_analysis.issues_found)
          /\ \A j \in DOMAIN results.quality_analysis.issues_found :
                /\ CallsAt("QualityRecommender")[j].arg
                      = results.quality_analysis.issues_found[j].column
                /\ CallsAt("QualityRecommender")[j].outcome # GenOk =>
                      results.quality_analysis.issues_found[j].recommended_action
                          # Generated("recommended_action")
    /\ ~Present(3) => CallsAt("QualityRecommender") = <<>>
    /\ CallsAt("MLUseCaseDetector") \o CallsAt("FeatureEngineeringPlanner")
          = SelectSeq(generation, LAMBDA c : SiteStage(c.site) = 4)
    /\ Len(CallsAt("MLUseCaseDetector")) = (IF Present(4) THEN 1 ELSE 0)
    /\ Len(CallsAt("FeatureEngineeringPlanner")) = (IF Present(4) THEN 1 ELSE 0)
    /\ Len(CallsAt("DatabricksDeploymentPlanner")) = (IF Present(5) THEN 1 ELSE 0)
    /\ Len(CallsAt("BusinessCommunicationGenerator")) = (IF Present(6) THEN 1 ELSE 0)

\* A run over a dataset with a column has ended with all six stages
\* completed after the Schema call, the Quality call and the detector call
\* failed: every site was called once and no more.
C12_Witness ==
    /\ pc = "done"
    /\ \A k \in DOMAIN AgentNames : Completed(k)
    /\ {"SchemaInterpreter", "QualityRecommender", "MLUseCaseDetector"} \subseteq FailingSites
    /\ Len(generation) = 7

\* C13: when the ML Advisor returns, it has called the detector and then the
\* planner, whatever the detector call did.  After a failed detector call
\* the planner is given target_variable 'Unknown', ml_use_case 'Unable to
\* detect' and the base instructions; after a successful one it is given the
\* target variable and the use case the detector returned.  Each of the two
\* sub-records holds its call's output or its own fallback, independently
\* of the other, with all its fields.
C13_PlannerAfterDetector ==
    Present(4) =>
        LET detector == CallsAt("MLUseCaseDetector")
            planner  == CallsAt("FeatureEngineeringPlanner")
            rec      == results.ml_recommendations
        IN  /\ Len(detector) = 1 /\ Len(planner) = 1
            /\ detector[1].outcome # GenOk =>
                  /\ planner[1].arg.target_variable = <<"Unknown">>
                  /\ planner[1].arg.ml_use_case
                        = <<"U", "n", "a", "b", "l", "e", " ", "t", "o", " ", "d", "e", "t", "e", "c", "t">>
                  /\ planner[1].arg.planning_instructions = <<"base">>
                  /\ rec.ml_use_case.detected_use_case = planner[1].arg.ml_use_case
                  /\ rec.ml_use_case.target_variable = <<"Unknown">>
                  /\ rec.ml_use_case.suitability_score = <<"0">>
            /\ detector[1].outcome = GenOk =>
                  /\ planner[1].arg.target_variable = Generated("target_variable")
                  /\ planner[1].arg.ml_use_case \in UseCaseLabels
                  /\ rec.ml_use_case.detected_use_case = planner[1].arg.ml_use_case
                  /\ rec.ml_use_case.target_variable = planner[1].arg.target_variable
                  /\ planner[1].arg.planning_instructions
                        = <<"base", "**Classification Focus:**">>
            /\ planner[1].outcome = GenOk <=>
                  rec.feature_engineering.feature_plan = Generated("feature_plan")
            /\ planner[1].outcome # GenOk =>
                  /\ rec.feature_engineering.feature_plan
                        = <<"Error generating plan: ", planner[1].outcome>>
                  /\ rec.feature_engineering.training_recommendations
                        = <<"Unable to generate recommendations">>
            /\ DOMAIN rec = {"ml_use_case", "feature_engineering"}
            /\ DOMAIN rec.ml_use_case =
                  {"detected_use_case", "target_variable", "target_reasoning",
                   "suitability_score", "alternative_use_case"}
            /\ DOMAIN rec.feature_engineering =
                  {"feature_plan", "training_recommendations", "mlflow_setup"}

\* The ML Advisor has returned after a failed detector call and a
\* successful planner call.
C13_Witness ==
    /\ Present(4)
    /\ 4 \in FailingStages
    /\ results.ml_recommendations.ml_use_case.target_variable = <<"Unknown">>
    /\ results.ml_recommendations.feature_engineering.feature_plan
          = Generated("feature_plan")

\* The threads inside the with block of get_configured_lm.
InLock ==
    {t \in Threads : lm_pc[t] \in {"locked_check", "configure", "configuring", "set", "release"}}

\* C14: whatever the number of threads and their interleaving,
\* dspy.configure is begun at most once, a thread is at or past the return
\* of get_configured_lm only after that one call has completed and
\* _configured was set, every thread is returned the handle that call
\* installed, and only the holder of the lock is inside the with block.
C14_ConfiguredOnce ==
    /\ configure_calls <= 1
    /\ \A t \in Threads :
          lm_pc[t] \in {"return", "returned"} =>
              /\ configure_calls = 1
              /\ configured
              /\ settings_lm = Lm(1)
              /\ \A u \in Threads : lm_pc[u] # "configuring"
    /\ \A t \in Threads : lm_pc[t] = "returned" => handle[t] = Lm(1)
    /\ \A t \in Threads : lm_pc[t] # "returned" => handle[t] = None
    /\ settings_lm # None => settings_lm = Lm(1)
    /\ configured => settings_lm = Lm(1)
    /\ InLock = IF lock = 0 THEN {} ELSE {lock}

\* One thread has configured and returned, and another, which passed the
\* first check before that, now holds the lock and finds _configured set.
C14_Witness ==
    \E a, b \in Threads :
        /\ a # b
        /\ lm_pc[a] = "returned"
        /\ lm_pc[b] = "locked_check"
        /\ lock = b
        /\ configured
        /\ configure_calls = 1

\* The three severities of an issue.
Severities == {"critical", "warnings", "info"}

\* The direct QualityAgent.analyze(df) call has returned its results.
QualityReturned == quality_result # None /\ ~quality_result.raised

\* C15: in the results QualityAgent.analyze returns, for every dataset,
\* critical + warnings + info = total_issues = the number of issues found,
\* and the severity of every issue is critical, warnings or info.
C15_SummaryCounts ==
    QualityReturned =>
        LET q == quality_result.value
        IN  /\ q.summary.critical + q.summary.warnings + q.summary.info
                  = q.summary.total_issues
            /\ q.summary.total_issues = Len(q.issues_found)
            /\ \A i \in DOMAIN q.issues_found : q.issues_found[i].severity \in Severities

\* analyze returned issues of all three severities.
C15_Witness ==
    /\ QualityReturned
    /\ quality_result.value.summary.critical >= 1
    /\ quality_result.value.summary.warnings >= 1
    /\ quality_result.value.summary.info >= 1

\* The issues the direct QualityAgent.analyze(df) call returned.
IssuesFound == quality_result.value.issues_found

\* The threshold table on exact percentages: the severity of count out of
\* total when warnings starts above warn percent and critical above crit
\* percent (crit = 100: never critical).
TableSeverity(count, total, warn, crit) ==
    IF 100 * count > crit * total THEN "critical"
    ELSE IF 100 * count > warn * total THEN "warnings"
    ELSE "info"

\* The severity the table gives an issue of the dataset.
TableEntry(issue) ==
    CASE issue.type = "missing_values" ->
            \E j \in DOMAIN df.columns :
                /\ df.columns[j].column_name = issue.column
                /\ NullCount(df.columns[j].cells) >= 1
                /\ issue.severity
                      = TableSeverity(NullCount(df.columns[j].cells), FrameLen(df), 20, 50)
      [] issue.type = "duplicates" ->
            issue.severity = TableSeverity(issue.count, FrameLen(df), 5, 100)
      [] issue.type = "outliers" ->
            issue.severity = TableSeverity(issue.count, FrameLen(df), 10, 100)
      [] issue.type = "inconsistent_categories" ->
            issue.severity = "info"
      [] OTHER -> FALSE

\* C16: every issue has the severity of the threshold table on the unrounded
\* percentage: missing values (only for a column with a null) critical
\* above 50%, warnings above 20% up to 50%, info otherwise; duplicates
\* warnings above 5%, outliers warnings above 10%, info otherwise;
\* inconsistent categories info; the last three never critical.
C16_SeverityTable ==
    QualityReturned =>
        \A i \in DOMAIN IssuesFound :
            /\ TableEntry(IssuesFound[i])
            /\ IssuesFound[i].type # "missing_values" => IssuesFound[i].severity # "critical"

\* A column with exactly half its cells missing got warnings, next to a
\* duplicates issue with warnings.
C16_Witness ==
    /\ QualityReturned
    /\ \E i \in DOMAIN IssuesFound :
          /\ IssuesFound[i].type = "missing_values"
          /\ 2 * IssuesFound[i].count = FrameLen(df)
          /\ IssuesFound[i].severity = "warnings"
    /\ \E i \in DOMAIN IssuesFound :
          /\ IssuesFound[i].type = "duplicates"
          /\ IssuesFound[i].severity = "warnings"

\* C17, as stated: for every column of the Schema stage's result,
\* null_percentage is 100 * null_count / total_rows rounded to two decimals
\* (in hundredths: 10000 * null_count / total_rows rounded to an integer),
\* null_count is at most total_rows, and null_percentage is within 0..100.
C17_AsStated ==
    Present(1) =>
        \A j \in DOMAIN results.schema_analysis.columns :
            LET column == results.schema_analysis.columns[j]
            IN  /\ column.null_percentage = RoundDiv(10000 * column.null_count, FrameLen(df))
                /\ column.null_count <= FrameLen(df)
                /\ column.null_percentage >= 0
                /\ column.null_percentage <= 10000

\* The i-th smallest of the values xs, by rank.
Smallest(xs, i) ==
    CHOOSE x \in {xs[j] : j \in DOMAIN xs} :
        /\ Cardinality({j \in DOMAIN xs : xs[j] < x}) < i
        /\ i <= Cardinality({j \in DOMAIN xs : xs[j] <= x})

\* Four times the k-th quartile of the values xs, interpolated linearly
\* between the two ranks around position (n - 1) * k / 4.
Quartile4(xs, k) ==
    LET i == ((Len(xs) - 1) * k) \div 4
        r == ((Len(xs) - 1) * k) % 4
    IN  IF r = 0 THEN 4 * Smallest(xs, i + 1)
        ELSE (4 - r) * Smallest(xs, i + 1) + r * Smallest(xs, i + 2)

\* Eight times the Tukey fence [Q1 - 1.5 * IQR, Q3 + 1.5 * IQR] of xs.
Fence8(xs) ==
    LET Q1 == Quartile4(xs, 1)
        Q3 == Quartile4(xs, 3)
    IN  <<5 * Q1 - 3 * Q3, 5 * Q3 - 3 * Q1>>

\* The number of values strictly outside the fence.
BeyondFence(xs) ==
    IF xs = <<>> THEN 0
    ELSE LET fence == Fence8(xs)
         IN  Cardinality({j \in DOMAIN xs : 8 * xs[j] < fence[1] \/ 8 * xs[j] > fence[2]})

\* The outliers issues returned for the column of the given name.
OutlierIssues(name) ==
    {i \in DOMAIN IssuesFound :
        IssuesFound[i].type = "outliers" /\ IssuesFound[i].column = name}

\* C18: for every numeric column the outliers issue is emitted iff some
\* non-null value lies strictly below Q1 - 1.5 * IQR or strictly above
\* Q3 + 1.5 * IQR (quartiles interpolated linearly); its count is the number
\* of such values and its bounds are that fence, to two decimals; no other
\* column gets the issue; the column [1,2,3,4,5,100] gets bounds [-1.5, 8.5]
\* and count 1.
C18_TukeyFence ==
    QualityReturned =>
        /\ \A j \in DOMAIN df.columns :
              LET xs == Values(df.columns[j].cells)
                  found == OutlierIssues(df.columns[j].column_name)
                  fence == Fence8(xs)
                  count == BeyondFence(xs)
              IN  IF IsNumeric(df.columns[j])
                  THEN /\ Cardinality(found) = IF count > 0 THEN 1 ELSE 0
                       /\ \A i \in found :
                             /\ IssuesFound[i].count = count
                             /\ IssuesFound[i].bounds
                                   = <<RoundRatio(100 * fence[1], 8),
                                       RoundRatio(100 * fence[2], 8)>>
                       /\ xs = <<1, 2, 3, 4, 5, 100>> =>
                             \E i \in found :
                                 /\ IssuesFound[i].bounds = <<-150, 850>>
                                 /\ IssuesFound[i].count = 1
                  ELSE found = {}

\* analyze returned the outliers issue of the column [1,2,3,4,5,100]:
\* bounds [-1.5, 8.5], one outlier.
C18_Witness ==
    /\ QualityReturned
    /\ Len(df.columns) = 1
    /\ Values(df.columns[1].cells) = <<1, 2, 3, 4, 5, 100>>
    /\ NullCount(df.columns[1].cells) = 0
    /\ \E i \in DOMAIN IssuesFound :
          /\ IssuesFound[i].type = "outliers"
          /\ IssuesFound[i].bounds = <<-150, 850>>
          /\ IssuesFound[i].count = 1

\* str in lower case without the white space before its first and after its
\* last character that is not white space.
Folded(str) ==
    LET keep  == {i \in DOMAIN str : ~IsSpace(str[i])}
        first == CHOOSE i \in keep : \A k \in keep : i <= k
        last  == CHOOSE i \in keep : \A k \in keep : k <= i
    IN  IF keep = {} THEN <<>>
        ELSE [i \in 1..(last - first + 1) |-> LowerChar(str[first + i - 1])]

\* The distinct non-null values of a column.
DistinctValues(cells) == {cells[i].v : i \in {k \in DOMAIN cells : ~cells[k].null}}

\* The inconsistent_categories issues returned for the column of the given name.
InconsistentIssues(name) ==
    {i \in DOMAIN IssuesFound :
        IssuesFound[i].type = "inconsistent_categories" /\ IssuesFound[i].column = name}

\* C19: a text column with u distinct non-null values, 1 < u < 100, gets an
\* inconsistent_categories issue iff u exceeds the number of distinct values
\* after lower-casing and trimming, with the difference as its count; a
\* column with u <= 1 or u >= 100, or one that is not text, never gets the
\* issue; the values "A", "a ", "B" give count 1.
C19_InconsistentCategories ==
    QualityReturned =>
        \A j \in DOMAIN df.columns :
            LET values == DistinctValues(df.columns[j].cells)
                u      == Cardinality(values)
                diff   == u - Cardinality({Folded(v) : v \in values})
                found  == InconsistentIssues(df.columns[j].column_name)
            IN  IF df.columns[j].dtype = "object" /\ 1 < u /\ u < 100
                THEN /\ Cardinality(found) = IF diff > 0 THEN 1 ELSE 0
                     /\ \A i \in found : IssuesFound[i].count = diff
                     /\ values = {<<"A">>, <<"a", " ">>, <<"B">>} =>
                           \E i \in found : IssuesFound[i].count = 1
                ELSE found = {}

\* analyze returned the issue of the column "A", "a ", "B": count 1.
C19_Witness ==
    /\ QualityReturned
    /\ Len(df.columns) = 1
    /\ df.columns[1].dtype = "object"
    /\ df.columns[1].cells = <<Txt(<<"A">>), Txt(<<"a", " ">>), Txt(<<"B">>)>>
    /\ \E i \in DOMAIN IssuesFound :
          /\ IssuesFound[i].type = "inconsistent_categories"
          /\ IssuesFound[i].count = 1

\* C20, as stated: for every numeric column of the Profile stage's result,
\* min <= q25 <= median <= q75 <= max.
C20_AsStated ==
    Present(2) =>
        \A j \in DOMAIN results.profile_analysis.numeric_analysis :
            LET stats == results.profile_analysis.numeric_analysis[j]
            IN  /\ Le(stats.min, stats.q25)
                /\ Le(stats.q25, stats.median)
                /\ Le(stats.median, stats.q75)
                /\ Le(stats.q75, stats.max)

\* The label has "Class" directly followed by "ification": the only way the
\* words spell classification, in any case.
SaysClassification == \E i \in 1..(Len(use_case) - 1) : use_case[i] = WordClass /\ use_case[i + 1] = WordIfication

\* The label has the word "REGRESSION", or the word "clustering".
SaysRegression == \E i \in DOMAIN use_case : use_case[i] = WordRegression

SaysClustering == \E i \in DOMAIN use_case : use_case[i] = WordClustering

\* C21: _get_use_case_instructions returns, for every label, exactly one of
\* four texts: the classification instructions iff the label contains
\* classification in any case, else the regression ones iff it contains
\* regression, else the clustering ones iff it contains clustering, else the
\* base instructions; "Binary Classification" gets the classification ones.
C21_UseCaseDispatch ==
    instructions # <<>> =>
        /\ instructions = IF SaysClassification THEN <<"base", "**Classification Focus:**">>
                          ELSE IF SaysRegression THEN <<"base", "**Regression Focus:**">>
                          ELSE IF SaysClustering THEN <<"base", "**Clustering Focus:**">>
                          ELSE <<"base">>
        /\ Join(use_case) = BinaryClassification =>
              instructions = <<"base", "**Classification Focus:**">>

\* The call on "Binary Classification" returned the classification
\* instructions.
C21_Witness ==
    /\ use_case = <<WordBinary, WordClass, WordIfication>>
    /\ Join(use_case) = BinaryClassification
    /\ instructions = <<"base", "**Classification Focus:**">>

(* ------------------------------------------------------------------ C22 *)

\* The outcomes of the generation calls made at a call site, in call order.
OutcomesAt(site) ==
    {generation[i].outcome : i \in {j \in DOMAIN generation : generation[j].site = site}}

\* rec holds the output of the collaborator in every field of fields.
AllGenerated(rec, fields) == \A f \in Range(fields) : rec[f] = Generated(f)

\* A field of an error response: the sentinel, or the text of the error.
SentinelField(value, error) ==
    value = T("Unable to generate") \/ value = <<"Error: ", error>>

\* rec holds no output of the collaborator: every field of fields is the
\* sentinel or shows the error, and at least one shows the error.
AllSentinel(rec, fields, error) ==
    /\ \A f \in Range(fields) : SentinelField(rec[f], error)
    /\ \E f \in Range(fields) : rec[f] = <<"Error: ", error>>

\* The record stage k stored has exactly the keys of fields, and is the
\* output of the one call made at site when that call returned, and the
\* error response showing the call's exception when it raised.
TwoShapes(k, fields, site) ==
    Present(k) =>
        LET rec == results[ResultFields[k]]
        IN  /\ DOMAIN rec = Range(fields)
            /\ Cardinality(OutcomesAt(site)) = 1
            /\ \A out \in OutcomesAt(site) :
                  IF out = GenOk
                  THEN AllGenerated(rec, fields)
                  ELSE AllSentinel(rec, fields, out)
            /\ \A f, g \in Range(fields) :
                  (rec[f] = Generated(f)) <=> (rec[g] = Generated(g))

\* C22: a stored Deployment result has its 15 fields and a stored Business
\* Communication result its 5 fields, always the same ones, and each is
\* either the collaborator's output in every field (the call returned) or
\* the 'Unable to generate' sentinel in every field but the one that shows
\* the captured error text (the call raised); no record mixes the two.
C22_AllOrNothing ==
    /\ Len(DeploymentFields) = 15 /\ Cardinality(Range(DeploymentFields)) = 15
    /\ Len(BusinessFields) = 5 /\ Cardinality(Range(BusinessFields)) = 5
    /\ TwoShapes(5, DeploymentFields, "DatabricksDeploymentPlanner")
    /\ TwoShapes(6, BusinessFields, "BusinessCommunicationGenerator")

\* A run that stored the Deployment error response, with the error in
\* databricks_setup, and then the Business Communication output.
C22_Witness ==
    /\ pc = "done"
    /\ Present(5) /\ Present(6)
    /\ OutcomesAt("DatabricksDeploymentPlanner") = GenErrors
    /\ results.deployment_strategy.databricks_setup = <<"Error: ", "generation failed">>
    /\ results.deployment_strategy.future_enhancements = T("Unable to generate")
    /\ OutcomesAt("BusinessCommunicationGenerator") = {GenOk}
    /\ AllGenerated(results.business_communication, BusinessFields)

(* ------------------------------------------------------------------ C23 *)

\* The fixed recommended_action of each check's except block.
FallbackAction(type) ==
    CASE type = "missing_values" -> T("Impute with median/mode or drop rows")
      [] type = "duplicates" -> T("Remove duplicate rows")
      [] type = "outliers" -> T("Cap outliers or flag for investigation")
      [] type = "inconsistent_categories" -> T("Standardize categorical values")

\* The numeric and then the categorical records of a profile result.
ProfileRecords(rec) == rec.numeric_analysis \o rec.categorical_analysis

\* The j-th record of a stage is about the column of the stage's j-th
\* generation call and there is one record per call.
OneRecordPerCall(site, records, Key(_)) ==
    /\ Len(records) = Len(CallsAt(site))
    /\ \A j \in DOMAIN records : Key(records[j]) = CallsAt(site)[j].arg

\* The messages with which the stages called so far raised.
RaiseMessages(k) == {invoked[i].message : i \in {c \in Calls(k) : invoked[c].raised}}

\* C23: in Schema, Profile and Quality a failed generation call for a column
\* or an issue is replaced by the stage's fixed fallback values (Schema:
\* business_type 'Unknown', confidence 'low', recommendation 'Review
\* manually'), the record of that column or issue is still in the result,
\* the columns and issues after it are processed, each with its own call,
\* and no stage raises with the exception of a generation call.
C23_FallbackPerRecord ==
    /\ \A k \in 1..3 : RaiseMessages(k) \cap GenErrors = {}
    /\ (WasInvoked(1) /\ ~HasRaised(1)) =>
          /\ Present(1)
          /\ Len(results.schema_analysis.columns) = Len(df.columns)
          /\ OneRecordPerCall("SchemaInterpreter", results.schema_analysis.columns,
                              LAMBDA r : r.column_name)
          /\ \A j \in DOMAIN results.schema_analysis.columns :
                LET r == results.schema_analysis.columns[j]
                IN  IF CallsAt("SchemaInterpreter")[j].outcome = GenOk
                    THEN /\ r.business_type = Generated("business_type")
                         /\ r.confidence = Generated("confidence")
                         /\ r.recommendation = Generated("recommendation")
                    ELSE /\ r.business_type = T("Unknown")
                         /\ r.confidence = T("low")
                         /\ r.recommendation = T("Review manually")
    /\ (WasInvoked(2) /\ ~HasRaised(2)) =>
          /\ Present(2)
          /\ Len(ProfileRecords(results.profile_analysis)) = Len(df.columns)
          /\ OneRecordPerCall("StatisticalInsightGenerator",
                              ProfileRecords(results.profile_analysis),
                              LAMBDA r : r.column_name)
          /\ \A j \in DOMAIN ProfileRecords(results.profile_analysis) :
                LET r == ProfileRecords(results.profile_analysis)[j]
                IN  IF CallsAt("StatisticalInsightGenerator")[j].outcome = GenOk
                    THEN r.actionable_suggestion = Generated("actionable_suggestion")
                    ELSE r.actionable_suggestion
                            = IF j <= Len(results.profile_analysis.numeric_analysis)
                              THEN T("Review statistics manually")
                              ELSE T("Review distribution manually")
    /\ (WasInvoked(3) /\ ~HasRaised(3)) =>
          /\ Present(3)
          /\ OneRecordPerCall("QualityRecommender", results.quality_analysis.issues_found,
                              LAMBDA r : r.column)
          /\ \A j \in DOMAIN results.quality_analysis.issues_found :
                LET r == results.quality_analysis.issues_found[j]
                IN  IF CallsAt("QualityRecommender")[j].outcome = GenOk
                    THEN r.recommended_action = Generated("recommended_action")
                    ELSE r.recommended_action = FallbackAction(r.type)

\* The three stages have returned on a dataset of two columns after the
\* call for the first column failed in Schema and in Profile and the call
\* for the first issue failed in Quality, the calls after them returning:
\* the first records hold the fallback values, the second the output.
C23_Witness ==
    /\ pc = "ml_advisor"
    /\ Present(1) /\ Present(2) /\ Present(3)
    /\ Len(df.columns) = 2
    /\ CallsAt("SchemaInterpreter")[1].outcome # GenOk
    /\ results.schema_analysis.columns[1].business_type = T("Unknown")
    /\ results.schema_analysis.columns[2].business_type = Generated("business_type")
    /\ CallsAt("StatisticalInsightGenerator")[1].outcome # GenOk
    /\ CallsAt("StatisticalInsightGenerator")[2].outcome = GenOk
    /\ Len(results.quality_analysis.issues_found) >= 2
    /\ results.quality_analysis.issues_found[1].recommended_action
          = T("Impute with median/mode or drop rows")
    /\ results.quality_analysis.issues_found[2].recommended_action
          = Generated("recommended_action")

(* ------------------------------------------------------------------ C24 *)

\* The deterministic fields of a Schema result: the columns in order, each
\* with its dtype, counts and sample, and the dataset summary.
DetSchema(rec) ==
    [columns |-> [j \in DOMAIN rec.columns |->
                    [column_name     |-> rec.columns[j].column_name,
                     pandas_dtype    |-> rec.columns[j].pandas_dtype,
                     null_count      |-> rec.columns[j].null_count,
                     null_percentage |-> rec.columns[j].null_percentage,
                     unique_count    |-> rec.columns[j].unique_count,
                     sample_values   |-> rec.columns[j].sample_values]],
     summary |-> rec.summary]

\* The deterministic fields of a Profile result: the numeric statistics and
\* the value counts.
DetProfile(rec) ==
    [numeric_analysis |->
        [j \in DOMAIN rec.numeric_analysis |->
            [column_name |-> rec.numeric_analysis[j].column_name,
             mean        |-> rec.numeric_analysis[j].mean,
             median      |-> rec.numeric_analysis[j].median,
             std         |-> rec.numeric_analysis[j].std,
             min         |-> rec.numeric_analysis[j].min,
             max         |-> rec.numeric_analysis[j].max,
             q25         |-> rec.numeric_analysis[j].q25,
             q75         |-> rec.numeric_analysis[j].q75,
             skewness    |-> rec.numeric_analysis[j].skewness]],
     categorical_analysis |->
        [j \in DOMAIN rec.categorical_analysis |->
            [column_name   |-> rec.categorical_analysis[j].column_name,
             cardinality   |-> rec.categorical_analysis[j].cardinality,
             top_value     |-> rec.categorical_analysis[j].top_value,
             top_frequency |-> rec.categorical_analysis[j].top_frequency,
             top_5         |-> rec.categorical_analysis[j].top_5]]]

\* The deterministic fields of a Quality result: the issues in order, each
\* with its type, column, severity, count, percentage and bounds, and the
\* summary counts.
DetQuality(rec) ==
    [issues_found |->
        [j \in DOMAIN rec.issues_found |->
            [type       |-> rec.issues_found[j].type,
             column     |-> rec.issues_found[j].column,
             severity   |-> rec.issues_found[j].severity,
             count      |-> rec.issues_found[j].count,
             percentage |-> rec.issues_found[j].percentage,
             bounds     |-> rec.issues_found[j].bounds]],
     summary |-> rec.summary]

\* Another run of stage k on the dataset, its generation calls ending as
\* outs gives.
OtherRun(k, outs) ==
    CASE k = 1 -> SchemaAnalyze(df, NoFault, outs)
      [] k = 2 -> ProfileAnalyze(df, NoFault, outs)
      [] k = 3 -> QualityAnalyze(df, NoFault, outs)

\* The number of generation calls stage k makes on the dataset.
CallsOfStage(k) ==
    CASE k = 1 -> Len(df.columns)
      [] k = 2 -> ProfileCalls(df)
      [] k = 3 -> QualityCalls(df)

\* The deterministic fields of a result of stage k.
Det(k, rec) ==
    CASE k = 1 -> DetSchema(rec)
      [] k = 2 -> DetProfile(rec)
      [] k = 3 -> DetQuality(rec)

\* C24: the deterministic fields of the Schema, Profile and Quality results
\* are a function of the dataset: the result a stage stored in this run,
\* whatever its generation calls did, has the same deterministic fields as
\* the result of any other run of the stage on the same dataset with any
\* other outcomes of its generation calls, and such a run returns too.
C24_Deterministic ==
    \A k \in 1..3 :
        Present(k) =>
            \A outs \in [1..CallsOfStage(k) -> GenOutcomes] :
                /\ ~OtherRun(k, outs).raised
                /\ Det(k, OtherRun(k, outs).value) = Det(k, results[ResultFields[k]])

\* The three stages returned on a dataset of two columns with missing
\* cells after every generation call failed: the records differ from those
\* of a run whose calls all return, in the generated fields only.
C24_Witness ==
    /\ pc = "ml_advisor"
    /\ Present(1) /\ Present(2) /\ Present(3)
    /\ Len(df.columns) = 2
    /\ Len(results.quality_analysis.issues_found) >= 2
    /\ \A i \in DOMAIN generation : generation[i].outcome # GenOk
    /\ \A k \in 1..3 :
          LET other == OtherRun(k, [j \in 1..CallsOfStage(k) |-> GenOk]).value
          IN  /\ other # results[ResultFields[k]]
              /\ Det(k, other) = Det(k, results[ResultFields[k]])

(* ------------------------------------------------------------------ C25 *)

\* |skew| < 0.5 and skew > 0.5 on a skewness kept as its sign and its
\* square num / den; both are false of NaN.
AbsBelowHalf(skewness) == ~skewness.nan /\ 4 * skewness.square.num < skewness.square.den

AboveHalf(skewness) ==
    ~skewness.nan /\ skewness.sign > 0 /\ 4 * skewness.square.num > skewness.square.den

\* The default pattern of the thresholds.
DefaultPattern(skewness) ==
    IF AbsBelowHalf(skewness) THEN T("normal distribution")
    ELSE IF AboveHalf(skewness) THEN T("right skewed")
    ELSE T("left skewed")

\* The three other defaults, on known columns: 'right skewed' on 0, 0, 1, 'left
\* skewed' on 0, 1, 1 and on a column of two values, whose skewness is NaN.
KnownPatterns ==
    LET r == results.profile_analysis.numeric_analysis[1]
    IN  Present(2) /\ CallsAt("StatisticalInsightGenerator")[1].outcome # GenOk =>
            /\ Values(df.columns[1].cells) = <<0, 0, 1>> =>
                  r.pattern_detected = T("right skewed")
            /\ Values(df.columns[1].cells) = <<0, 1, 1>> =>
                  r.pattern_detected = T("left skewed")
            /\ Len(Values(df.columns[1].cells)) = 2 =>
                  r.skewness.nan /\ r.pattern_detected = T("left skewed")

\* C25: the pattern_detected of a numeric column is the collaborator's
\* value when the column's generation call returned, and otherwise the
\* default derived from the column's skewness alone: 'normal distribution'
\* when |skew| < 0.5, 'right skewed' when skew > 0.5, 'left skewed' in
\* every other case.
C25_DefaultPattern ==
    Present(2) =>
        /\ Len(results.profile_analysis.numeric_analysis) = 1
        /\ Len(CallsAt("StatisticalInsightGenerator")) = 1
        /\ LET r == results.profile_analysis.numeric_analysis[1]
           IN  /\ r.skewness = Skewness(df.columns[1].cells)
               /\ r.pattern_detected
                     = IF CallsAt("StatisticalInsightGenerator")[1].outcome = GenOk
                       THEN Generated("pattern_detected")
                       ELSE DefaultPattern(r.skewness)
        /\ KnownPatterns

\* The profile of the column 0, 1, 3, 3 (skewness about -0.37) after its
\* generation call failed: the pattern is 'normal distribution'.
C25_Witness ==
    /\ Present(2)
    /\ Values(df.columns[1].cells) = <<0, 1, 3, 3>>
    /\ CallsAt("StatisticalInsightGenerator")[1].outcome # GenOk
    /\ results.profile_analysis.numeric_analysis[1].skewness.sign = -1
    /\ results.profile_analysis.numeric_analysis[1].pattern_detected
          = T("normal distribution")

(* ------------------------------------------------------------------ C26 *)

\* C26: the status analyze_dataset returns is 'completed' exactly when
\* agents_completed is the six stages in order and all six result fields
\* are present, and 'partial_failure' exactly when at least one stage
\* raised; a completed result has no absent stage result, so get_summary
\* reads its Schema and Quality summaries without raising.
C26_CompletedIffAllSix ==
    pc = "done" =>
        /\ returned.status = "completed" <=>
              /\ returned.agents_completed = AgentNames
              /\ \A k \in DOMAIN ResultFields : returned[ResultFields[k]] # None
        /\ returned.status = "partial_failure" <=> RaisedStages # {}
        /\ returned.status = "completed" =>
              /\ \A k \in DOMAIN ResultFields : returned[ResultFields[k]] # None
              /\ ~GetSummary(returned).raised
              /\ GetSummary(returned).value.agents_completed = AgentNames

\* A run over a dataset with a column has returned 'completed' with all
\* six results although a generation call failed in it.
C26_Witness ==
    /\ pc = "done"
    /\ Len(df.columns) > 0
    /\ returned.status = "completed"
    /\ returned.agents_completed = AgentNames
    /\ \A k \in DOMAIN ResultFields : returned[ResultFields[k]] # None
    /\ FailedCalls # {}

(* ------------------------------------------------------------------ C27 *)

\* The three outcomes of stage k at the end of a run.
OutcomeCompleted(k) == Completed(k) /\ Present(k) /\ ErrorsOf(k) = {}

OutcomeRaised(k) == Cardinality(ErrorsOf(k)) = 1 /\ ~Present(k) /\ ~Completed(k)

OutcomeSkipped(k) == ~Present(k) /\ ErrorsOf(k) = {} /\ ~Completed(k)

\* The number of positions of agents_completed holding stage k's name.
TimesCompleted(k) ==
    Cardinality({i \in DOMAIN results.agents_completed :
                    results.agents_completed[i] = AgentNames[k]})

\* C27: when a run has ended, every stage is completed (name in
\* agents_completed, result present), raised (exactly one error string,
\* result absent) or skipped by its gate (result absent, no error string),
\* and a stage is raised exactly when its analyze raised and skipped
\* exactly when it was not called; a name is in agents_completed iff the
\* result is present; the two lists together have at most six entries; a
\* stage that was not called has no entry in errors.
C27_StageOutcomes ==
    pc = "done" =>
        /\ \A k \in DOMAIN AgentNames :
              /\ OutcomeCompleted(k) \/ OutcomeRaised(k) \/ OutcomeSkipped(k)
              /\ OutcomeCompleted(k) <=> (WasInvoked(k) /\ ~HasRaised(k))
              /\ OutcomeRaised(k) <=> HasRaised(k)
              /\ OutcomeSkipped(k) <=> ~WasInvoked(k)
              /\ Completed(k) <=> Present(k)
              /\ TimesCompleted(k) <= 1
              /\ ~WasInvoked(k) => ErrorsOf(k) = {}
        /\ Len(results.agents_completed) + Len(results.errors) <= 6
        /\ Len(results.agents_completed) + Len(results.errors)
              = Cardinality({k \in DOMAIN AgentNames : WasInvoked(k)})
        /\ UNION {ErrorsOf(k) : k \in DOMAIN AgentNames} = DOMAIN results.errors

\* A run has ended with the three outcomes side by side: Schema and Quality
\* completed, Profile raised, and the three later stages skipped.
C27_Witness ==
    /\ pc = "done"
    /\ OutcomeCompleted(1) /\ OutcomeRaised(2) /\ OutcomeCompleted(3)
    /\ OutcomeSkipped(4) /\ OutcomeSkipped(5) /\ OutcomeSkipped(6)
    /\ Len(results.errors) = 1

(* ------------------------------------------------------------------ C28 *)

\* The result fields analyze_dataset passes to stage k's analyze.
ArgumentsOf(k) ==
    CASE k \in 1..3 -> {}
      [] k = 4 -> {"schema_analysis", "profile_analysis", "quality_analysis"}
      [] k = 5 -> {"schema_analysis", "ml_recommendations"}
      [] k = 6 -> {"ml_recommendations", "deployment_strategy"}

\* The result fields generate_prd passes to POAgent.generate_prd.
PrdArguments ==
    {"schema_analysis", "quality_analysis", "ml_recommendations", "deployment_strategy",
     "business_communication"}

\* Stage k's analyze is called in this step.
CallsStage(k) ==
    /\ Len(invoked') = Len(invoked) + 1
    /\ LastCall(invoked').agent = AgentNames[k]

\* POAgent.generate_prd is called in this step.
CallsPO == pc = "done" /\ po_invoked'

\* C28: in every step that calls a stage, the results the supervisor hands
\* it, read from the dict as it is at the call, are present: schema,
\* profile and quality for the ML Advisor; schema and ML recommendations for
\* Deployment; ML recommendations and deployment strategy for Business
\* Communication; and the five inputs of POAgent.generate_prd.
C28_ArgumentsPresent ==
    [][/\ \A k \in DOMAIN AgentNames :
             CallsStage(k) => \A f \in ArgumentsOf(k) : results[f] # None
       /\ CallsPO => \A f \in PrdArguments : results[f] # None]_vars

\* The PO agent has been called after a run in which Deployment and
\* Business Communication were called, each with its arguments present.
C28_Witness ==
    /\ po_invoked
    /\ WasInvoked(4) /\ WasInvoked(5) /\ WasInvoked(6)
    /\ \A f \in PrdArguments \cup ArgumentsOf(4) : results[f] # None

(* ------------------------------------------------------------------ C29 *)

\* The keys of the ml_use_case part that Deployment, Business Communication
\* and the PRD stage read.
UseCaseReads ==
    {"detected_use_case", "target_variable", "suitability_score", "target_reasoning",
     "alternative_use_case"}

\* The messages of the calls of stages 4 to 6 that raised.
SynthesisRaises ==
    {invoked[i].message : i \in {c \in DOMAIN invoked :
        invoked[c].raised /\ StageIndex(invoked[c].agent) \in 4..6}}

\* C29: every ML Advisor record stored, whatever mix of its two generation
\* calls failed, has every key Deployment, Business Communication and the
\* PRD stage read, and every Deployment record every key Business
\* Communication and the PRD stage read, so no stage raises a KeyError on
\* the record of an earlier one; and when Schema, Profile and Quality
\* returned and nothing but generation calls failed, the ML Advisor,
\* Deployment and Business Communication complete, errors is empty and the
\* status is 'completed'.
C29_ClosedUnderFallback ==
    /\ Present(4) =>
          /\ DOMAIN results.ml_recommendations = {"ml_use_case", "feature_engineering"}
          /\ UseCaseReads \subseteq DOMAIN results.ml_recommendations.ml_use_case
          /\ POReadsFeature \subseteq DOMAIN results.ml_recommendations.feature_engineering
          /\ DeploymentKeyError(results.schema_analysis, results.ml_recommendations)
                = NoKeyError
          /\ BusinessKeyError(results.ml_recommendations) = NoKeyError
          /\ POKeyError(results.ml_recommendations) = NoKeyError
    /\ Present(5) =>
          (BusinessReads \cup POReadsDeployment) \subseteq DOMAIN results.deployment_strategy
    /\ Present(6) => POReadsBusiness \subseteq DOMAIN results.business_communication
    /\ SynthesisRaises \subseteq Faults
    /\ (po_invoked /\ Len(prd_result.prd_document) = 3) =>
          prd_result.prd_document[3] \in Faults
    /\ (pc = "done" /\ Present(1) /\ Present(2) /\ Present(3) /\ SynthesisRaises = {}) =>
          /\ Completed(4) /\ Completed(5) /\ Completed(6)
          /\ Present(4) /\ Present(5) /\ Present(6)
          /\ returned.errors = <<>>
          /\ returned.status = "completed"

\* A run has ended 'completed' after the detector call and the Deployment
\* call failed and the planner call and the Business Communication call
\* returned, and the PO agent was then called on its records.
C29_Witness ==
    /\ pc = "done"
    /\ returned.status = "completed"
    /\ returned.errors = <<>>
    /\ OutcomesAt("MLUseCaseDetector") = GenErrors
    /\ OutcomesAt("FeatureEngineeringPlanner") = {GenOk}
    /\ OutcomesAt("DatabricksDeploymentPlanner") = GenErrors
    /\ OutcomesAt("BusinessCommunicationGenerator") = {GenOk}
    /\ results.ml_recommendations.ml_use_case.suitability_score = T("0")
    /\ po_invoked
    /\ prd_result.status = "success"

(* ------------------------------------------------------------------ C30 *)

\* A step replaces or clears the stored analysis results.
ResultsReplaced == provenance'.analysis # provenance.analysis

\* A step stores a PRD that generate_prd returned.
PrdStored ==
    /\ session_state'.prd_result # None
    /\ \/ session_state'.prd_result # session_state.prd_result
       \/ provenance'.prd # provenance.prd

\* C30 as stated: after every script run of the session a stored PRD was
\* generated from the analysis results now stored; a step that replaces or
\* clears the stored results leaves no PRD stored; and generate_prd is
\* called only on stored results whose status is 'completed'.
C30_AsStated ==
    [][/\ session_state'.prd_result # None =>
             /\ session_state'.analysis_results # None
             /\ provenance'.prd = provenance'.analysis
       /\ ResultsReplaced => session_state'.prd_result = None
       /\ PrdStored =>
             /\ session_state.analysis_results # None
             /\ session_state.analysis_results.status = "completed"]_vars

====
